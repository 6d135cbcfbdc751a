------------------------------ MODULE Board_proof ------------------------------
(***************************************************************************)
(* Proofs about two parts of the board that each keep a picture up to date *)
(* through callbacks: the map (MapView) and the asset registry with its    *)
(* cached catalog (AssetRegistry).  They share no variable.  For any       *)
(* number of events, overviews, layers, assets, requests and dialogs.      *)
(***************************************************************************)
EXTENDS MapView, AssetRegistry, TLAPS

------------------------------------------------------------------------------
(* The map: the invariant.                                                  *)

\* A frame is only requested for a marker that is lit and seen, and only what
\* was drawn is painted.
Pulsing ==
    /\ frame => lit /\ Resources \in visible
    /\ paint = "pulsing" => field # NoField

\* The camera is where the event shown is, if that is anywhere.
CameraThere == EventOf[view] \in Located => camera = EventOf[view]

MapInv == TypeOK /\ DrawnOrWaiting /\ PulseEnds /\ Pulsing /\ CameraThere

\* What a drawing of the domain layers leaves, and which of them it may raise.
LEMMA LayersDrawn ==
  ASSUME TypeOK, NEW d \in LayerDrawing, DrawLayers(d)
  PROVE  /\ layers' \in [Layer -> Overview \cup {NoView}] /\ on' \subseteq Layer
         /\ \A l \in LayersOf[d.view] : layers'[l] = d.view /\ (l \in on' <=> l \in d.visible)
         /\ Raised(d) \subseteq {l \in Layer : layers'[l] # NoView}
         /\ above \subseteq {l \in Layer : layers'[l] # NoView}
<1>1. /\ d.view \in Overview /\ d.view # NoView
      /\ LayersOf[d.view] \subseteq Layer
  BY MapAssumption DEF LayerDrawing
<1>2. /\ layers' = [l \in Layer |-> IF l \in LayersOf[d.view] THEN d.view ELSE layers[l]]
      /\ on' = (on \ LayersOf[d.view]) \cup (LayersOf[d.view] \cap d.visible)
  BY DEF DrawLayers
<1>3. above \subseteq {l \in Layer : layers[l] # NoView} /\ on \subseteq Layer
  BY DEF TypeOK
<1>4. layers' \in [Layer -> Overview \cup {NoView}]
  BY <1>1, <1>2 DEF TypeOK
<1>5. \A l \in Layer : l \in LayersOf[d.view] \/ layers[l] # NoView => layers'[l] # NoView
  BY <1>1, <1>2
<1>6. Raised(d) \subseteq {l \in Layer : layers'[l] # NoView}
  BY <1>1, <1>3, <1>5 DEF Raised
<1> QED BY <1>1, <1>2, <1>3, <1>4, <1>5, <1>6

\* What a commit asks to be drawn has a type, and is not "nothing".
LEMMA DrawingsTyped ==
  ASSUME NEW v \in Overview, NEW vis \in Shown
  PROVE  /\ LayersOn(v, vis) \in LayerDrawing /\ LayersOn(v, vis) # NoLayers
         /\ FieldOn(v, vis) \in FieldDrawing /\ FieldOn(v, vis) # NoField
BY MapAssumption DEF LayersOn, FieldOn, LayerDrawing, FieldDrawing, NoLayers, NoField

\* The drawing effects of a commit leave the map as its state asks for, or
\* with a drawing of that state waiting.
LEMMA EffectsDraw ==
  ASSUME MapInv, NEW fresh \in BOOLEAN, NEW v \in Overview, NEW vis \in Shown,
         ~fresh => v = view, DrawingEffects(fresh, v, vis)
  PROVE  /\ layers' \in [Layer -> Overview \cup {NoView}] /\ on' \subseteq Layer
         /\ field' \in FieldDrawing \cup {NoField}
         /\ field # NoField => field' # NoField
         /\ above' \subseteq {l \in Layer : layers'[l] # NoView}
         /\ ready' \in BOOLEAN
         /\ waiting' \in [base : Style \cup {NoStyle}, layers : LayerDrawing \cup {NoLayers},
                          field : FieldDrawing \cup {NoField}]
         /\ waiting'.base = waiting.base
         /\ field' = FieldOn(v, vis) \/ waiting'.field = FieldOn(v, vis)
         /\ waiting'.field \in {NoField, FieldOn(v, vis)}
         /\ \/ waiting'.layers = LayersOn(v, vis)
            \/ \A l \in LayersOf[v] : layers'[l] = v /\ (l \in on' <=> l \in vis)
         /\ waiting'.layers \in {NoLayers, LayersOn(v, vis)}
<1> DEFINE layersRun == LayersRerun(fresh, v, vis)
           raised == IF layersRun /\ ready THEN Raised(LayersOn(v, vis)) ELSE above
<1>a. TypeOK /\ DrawnOrWaiting
  BY DEF MapInv
<1>t. /\ LayersOn(v, vis) \in LayerDrawing /\ FieldOn(v, vis) \in FieldDrawing
      /\ FieldOn(v, vis) # NoField
      /\ LayersOn(v, vis).view = v /\ LayersOn(v, vis).visible = vis
  BY DrawingsTyped DEF LayersOn
<1>1. PICK r \in After(ready, (layersRun /\ ready) /\ LayersOf[v] # {}) :
         LET fieldDraws == FieldReruns(fresh) /\ r
         IN  /\ field' = IF fieldDraws THEN FieldOn(v, vis) ELSE field
             /\ above' = IF fieldDraws THEN AfterField(raised) ELSE raised
             /\ ready' \in After(r, fieldDraws)
             /\ waiting' = [waiting EXCEPT
                  !.layers = IF ~layersRun THEN @
                             ELSE IF ready THEN NoLayers ELSE LayersOn(v, vis),
                  !.field = IF ~FieldReruns(fresh) THEN @
                            ELSE IF r THEN NoField ELSE FieldOn(v, vis)]
  BY DEF DrawingEffects
<1>2. r \in BOOLEAN
  BY <1>1, <1>a DEF After, TypeOK
<1>3. /\ field' = IF r THEN FieldOn(v, vis) ELSE field
      /\ above' = IF r THEN {} ELSE raised
      /\ ready' \in BOOLEAN
  BY <1>1, <1>2 DEF FieldReruns, AfterField, After
<1>4. PICK wl : wl = IF ~layersRun THEN waiting.layers
                     ELSE IF ready THEN NoLayers ELSE LayersOn(v, vis)
  OBVIOUS
<1>5. PICK wf : wf = IF r THEN NoField ELSE FieldOn(v, vis)
  OBVIOUS
<1>6. /\ waiting'.base = waiting.base /\ waiting'.layers = wl /\ waiting'.field = wf
      /\ waiting' \in [base : Style \cup {NoStyle}, layers : LayerDrawing \cup {NoLayers},
                       field : FieldDrawing \cup {NoField}]
  <2>1. waiting' = [waiting EXCEPT !.layers = wl, !.field = wf]
    BY <1>1, <1>4, <1>5 DEF FieldReruns
  <2>2. wl \in LayerDrawing \cup {NoLayers} /\ wf \in FieldDrawing \cup {NoField}
    BY <1>4, <1>5, <1>t, <1>a DEF TypeOK
  <2> QED BY <2>1, <2>2, <1>a DEF TypeOK
<1>7. CASE layersRun /\ ready
  <2>1. DrawLayers(LayersOn(v, vis))
    BY <1>7 DEF DrawingEffects
  <2>2. /\ layers' \in [Layer -> Overview \cup {NoView}] /\ on' \subseteq Layer
        /\ \A l \in LayersOf[v] : layers'[l] = v /\ (l \in on' <=> l \in vis)
        /\ raised \subseteq {l \in Layer : layers'[l] # NoView}
    BY <1>7, <2>1, <1>a, <1>t, LayersDrawn
  <2>3. wl = NoLayers
    BY <1>4, <1>7
  <2> QED BY <1>3, <1>5, <1>6, <1>t, <1>a, <2>2, <2>3 DEF TypeOK
<1>8. CASE ~(layersRun /\ ready)
  <2>1. UNCHANGED <<layers, on>> /\ raised = above
    BY <1>8 DEF DrawingEffects
  <2>2. ~layersRun => v = view /\ vis = visible
    BY DEF LayersRerun
  <2>3. /\ wl = LayersOn(v, vis) \/ \A l \in LayersOf[v] : layers[l] = v /\ (l \in on <=> l \in vis)
        /\ wl \in {NoLayers, LayersOn(v, vis)}
    BY <1>4, <1>8, <1>a, <2>2 DEF DrawnOrWaiting
  <2> QED BY <1>3, <1>5, <1>6, <1>t, <1>a, <2>1, <2>3 DEF TypeOK
<1> QED BY <1>7, <1>8

\* A commit keeps the invariant.
LEMMA CommitKeeps ==
  ASSUME MapInv, NEW fresh \in BOOLEAN, NEW v \in Overview, NEW vis \in Shown,
         NEW l \in BOOLEAN, ~fresh => v = view, Commit(fresh, v, vis, l)
  PROVE  MapInv'
<1>1. /\ view' = v /\ visible' = vis /\ lit' = l /\ UNCHANGED <<style, loaded, base>>
      /\ CameraEffect(v) /\ DrawingEffects(fresh, v, vis) /\ PulseEffect(fresh, vis, l)
  BY DEF Commit
<1>2. CameraThere' /\ camera' \in Event \cup {NoEvent} /\ panned' \in BOOLEAN
  BY <1>1, MapAssumption DEF CameraEffect, CameraThere, MapInv, TypeOK
<1>3. PulseEnds' /\ Pulsing' /\ frame' \in BOOLEAN /\ paint' \in {"plain", "pulsing"}
  <2>1. field # NoField => field' # NoField
    BY <1>1, EffectsDraw
  <2> QED BY <1>1, <2>1 DEF PulseEffect, PulseReruns, MapInv, TypeOK, PulseEnds, Pulsing
<1>4. TypeOK'
  BY <1>1, <1>2, <1>3, EffectsDraw DEF MapInv, TypeOK
<1>5. DrawnOrWaiting'
  BY <1>1, EffectsDraw DEF MapInv, DrawnOrWaiting
<1> QED BY <1>2, <1>3, <1>4, <1>5 DEF MapInv

\* "load" draws what waits, which is never out of date.
LEMMA LoadKeeps == ASSUME MapInv, FireLoad PROVE MapInv'
<1>a. TypeOK /\ DrawnOrWaiting /\ view \in Overview /\ visible \in Shown
  BY DEF MapInv, TypeOK
<1>1. /\ waiting' = [base |-> NoStyle, layers |-> NoLayers, field |-> NoField]
      /\ base' = IF waiting.base = NoStyle THEN base ELSE waiting.base
      /\ field' = IF waiting.field = NoField THEN field ELSE waiting.field
      /\ loaded' = TRUE /\ ready' \in BOOLEAN
      /\ UNCHANGED <<boardVars, camera, panned, frame, paint>>
  BY DEF FireLoad
<1>2. /\ LayersOn(view, visible) \in LayerDrawing /\ LayersOn(view, visible) # NoLayers
      /\ FieldOn(view, visible) \in FieldDrawing /\ FieldOn(view, visible) # NoField
      /\ LayersOn(view, visible).view = view /\ LayersOn(view, visible).visible = visible
  BY <1>a, DrawingsTyped DEF LayersOn
<1>3. /\ layers' \in [Layer -> Overview \cup {NoView}] /\ on' \subseteq Layer
      /\ \A l \in LayersOf[view] : layers'[l] = view /\ (l \in on' <=> l \in visible)
      /\ above' \subseteq {l \in Layer : layers'[l] # NoView}
  <2> DEFINE raised == IF waiting.layers = NoLayers THEN above ELSE Raised(waiting.layers)
  <2>0. above' \subseteq raised
    BY DEF FireLoad, AfterField
  <2>1. CASE waiting.layers = NoLayers
    BY <2>0, <2>1, <1>a, <1>2 DEF FireLoad, DrawnOrWaiting, TypeOK
  <2>2. CASE waiting.layers # NoLayers
    <3>1. waiting.layers = LayersOn(view, visible) /\ DrawLayers(waiting.layers)
      BY <2>2, <1>a DEF FireLoad, DrawnOrWaiting
    <3> QED BY <2>0, <2>2, <3>1, <1>a, <1>2, LayersDrawn
  <2> QED BY <2>1, <2>2
<1>4. base' = style /\ field' = FieldOn(view, visible)
  BY <1>1, <1>2, <1>a DEF DrawnOrWaiting, TypeOK, Style, NoStyle
<1>5. TypeOK'
  BY <1>1, <1>2, <1>3, <1>4, <1>a DEF TypeOK, boardVars, NoStyle
<1>6. DrawnOrWaiting'
  BY <1>1, <1>3, <1>4 DEF DrawnOrWaiting, boardVars
<1>7. PulseEnds' /\ Pulsing' /\ CameraThere'
  BY <1>1, <1>2, <1>4 DEF MapInv, PulseEnds, Pulsing, CameraThere, boardVars
<1> QED BY <1>5, <1>6, <1>7 DEF MapInv

LEMMA MapInitHolds == Init => MapInv
<1> SUFFICES ASSUME Init PROVE MapInv
  OBVIOUS
<1>1. visible \in Shown /\ view \in Overview
  BY DEF Init, Shown
<1>2. TypeOK
  BY <1>1, DrawingsTyped, MapAssumption DEF Init, TypeOK, Style
<1>3. DrawnOrWaiting
  BY DEF Init, DrawnOrWaiting
<1> QED BY <1>2, <1>3 DEF Init, MapInv, PulseEnds, Pulsing, CameraThere

LEMMA MapStepKeeps == MapInv /\ [Next]_vars => MapInv'
<1> SUFFICES ASSUME MapInv, [Next]_vars PROVE MapInv'
  OBVIOUS
<1>a. view \in Overview /\ visible \in Shown /\ lit \in BOOLEAN
  BY DEF MapInv, TypeOK
<1>1. ASSUME NEW v \in Overview, ShowOverview(v) PROVE MapInv'
  BY <1>1, <1>a, CommitKeeps DEF ShowOverview
<1>2. ASSUME NEW x \in Layer \cup {Resources}, Toggle(x) PROVE MapInv'
  <2>1. PICK vis : /\ vis = IF x \in visible THEN visible \ {x} ELSE visible \cup {x}
                   /\ Commit(FALSE, view, vis, lit)
    BY <1>2 DEF Toggle
  <2>2. vis \in Shown
    BY <1>a, <2>1 DEF Shown
  <2> QED BY <1>a, <2>1, <2>2, CommitKeeps
<1>3. CASE Unlight \/ Rerender
  BY <1>3, <1>a, CommitKeeps DEF Unlight, Rerender
<1>4. CASE SwitchBase
  <2>1. style' \in Style /\ base' \in Style
    BY <1>4 DEF SwitchBase, MapInv, TypeOK
  <2>2. /\ waiting' \in [base : Style \cup {NoStyle}, layers : LayerDrawing \cup {NoLayers},
                         field : FieldDrawing \cup {NoField}]
        /\ waiting'.layers = waiting.layers /\ waiting'.field = waiting.field
        /\ base' = style' \/ waiting'.base = style'
        /\ waiting'.base \in {NoStyle, style'}
    BY <1>4, <2>1 DEF SwitchBase, MapInv, TypeOK
  <2>3. UNCHANGED <<view, visible, lit, loaded, ready, layers, on, field, above, camera,
                    panned, frame, paint>>
    BY <1>4 DEF SwitchBase, drawnVars
  <2> QED BY <2>1, <2>2, <2>3
          DEF MapInv, TypeOK, DrawnOrWaiting, PulseEnds, Pulsing, CameraThere
<1>5. CASE Pan \/ FetchTiles \/ TilesArrive
  <2>1. /\ ready' \in BOOLEAN /\ panned' \in BOOLEAN
        /\ UNCHANGED <<view, visible, lit, style, loaded, waiting, base, layers, on, field,
                       above, camera, frame, paint>>
    BY <1>5 DEF Pan, FetchTiles, TilesArrive, boardVars, drawnVars, MapInv, TypeOK
  <2> QED BY <2>1
          DEF MapInv, TypeOK, DrawnOrWaiting, PulseEnds, Pulsing, CameraThere
<1>6. CASE FireLoad
  BY <1>6, LoadKeeps
<1>7. CASE Animate
  BY <1>7 DEF Animate, boardVars, drawnVars, MapInv, TypeOK, DrawnOrWaiting, PulseEnds,
              Pulsing, CameraThere
<1>8. CASE UNCHANGED vars
  BY <1>8 DEF vars, boardVars, drawnVars, MapInv, TypeOK, DrawnOrWaiting, PulseEnds,
              Pulsing, CameraThere
<1> QED BY <1>1, <1>2, <1>3, <1>4, <1>5, <1>6, <1>7, <1>8 DEF Next

LEMMA MapInvariance == Spec => []MapInv
  BY MapInitHolds, MapStepKeeps, PTL DEF Spec

------------------------------------------------------------------------------
(* The map: the theorems.                                                   *)

\* Board, map and what waits for "load" always have the types the code gives
\* them, and only layers that were drawn lie above the markers.
THEOREM MapTypeCorrect == Spec => []TypeOK
<1>1. MapInv => TypeOK
  BY DEF MapInv
<1> QED BY <1>1, MapInvariance, PTL

\* LivePositionMap.tsx:285, 331, 526: base map, layers and markers show the
\* board's present state or have its drawing waiting, and "load" never takes
\* the map back.
THEOREM NothingStaleIsDrawn == Spec => []DrawnOrWaiting
<1>1. MapInv => DrawnOrWaiting
  BY DEF MapInv
<1> QED BY <1>1, MapInvariance, PTL

\* LivePositionMap.tsx:528-574: no pulse outlives the change it stands for.
THEOREM NoEndlessPulse == Spec => []PulseEnds
<1>1. MapInv => PulseEnds
  BY DEF MapInv
<1> QED BY <1>1, MapInvariance, PTL

\* What one step may do to the operator's view.
KeepsPan == panned /\ ~panned' => EventOf[view'] # EventOf[view]

\* LivePositionMap.tsx:287-306: the map moves by itself only when the event
\* shown is another.
THEOREM ViewIsKept == Spec => PanKept
<1>1. MapInv /\ [Next]_vars => [KeepsPan]_vars
  <2> SUFFICES ASSUME MapInv, Next, panned, ~panned' PROVE EventOf[view'] # EventOf[view]
    BY DEF KeepsPan
  <2>1. PICK v \in Overview : view' = v /\ CameraEffect(v)
    BY DEF Next, ShowOverview, Toggle, Unlight, Rerender, Commit, SwitchBase, Pan, FetchTiles,
           TilesArrive, FireLoad, Animate, MapInv, TypeOK
  <2> QED BY <2>1 DEF CameraEffect, MapInv, CameraThere
<1>2. Spec => [][KeepsPan]_vars
  BY <1>1, MapInvariance, PTL DEF Spec
<1> QED BY <1>2 DEF PanKept, KeepsPan

------------------------------------------------------------------------------
(* The asset registry: the invariant.                                       *)

\* A promise somebody refers to is not reused for another request.
PromisesKept ==
    /\ catalog # NoFetch => fetch[catalog] # NoLoad
    /\ \A o \in Slot : overview[o] # Free => fetch[overview[o].of] # NoLoad

\* The catalog at hand has everything told so far, or has yet to be read.
CatalogFresh ==
    catalog # NoFetch /\ fetch[catalog].at \in {"read", "resolved"}
        => told \subseteq fetch[catalog].rows

MustIsTold == \A o \in Slot : overview[o].must \subseteq told

\* One registration of the dialog at a time, whose reload has what the dialog
\* registered; a first load that is under way began before all of that.
DialogInOrder ==
    /\ here \subseteq told
    /\ here # {} /\ ~overlapped => first = NoLoad
    /\ \A j \in Job : job[j].mine => saving
    /\ \A j, k \in Job : job[j].mine /\ job[k].mine => j = k
    /\ \A j \in Job : job[j].mine /\ job[j].at = "read" => here \subseteq job[j].rows

\* What the shapes of the records tell apart.
LEMMA RegistryApart ==
  /\ \A p \in Promise : p # NoLoad /\ p.at # "none" /\ p.rows \subseteq Asset
  /\ \A w \in Waiting : w # Free /\ w.of \in Fetch /\ w.of # NoFetch /\ w.must \subseteq Asset
  /\ \A s \in Submitted : s # Idle /\ s.at # "idle" /\ s.mine \in BOOLEAN
                          /\ s.asset \subseteq Asset /\ s.rows \subseteq Asset
  /\ Asked \in Promise /\ Asked \in Load /\ NoLoad.at = "none" /\ Free.of = NoFetch
  /\ Free.must = {} /\ Idle.at = "idle" /\ Idle.mine = FALSE /\ Asked.at = "asked"
BY SlotAssumption DEF Promise, NoLoad, Waiting, Free, Submitted, Idle, Asked, Load

\* Garbage is what nobody refers to.
LEMMA Collected ==
  ASSUME NEW p \in [Fetch -> Promise \cup {NoLoad}], NEW c \in Fetch \cup {NoFetch},
         NEW w \in [Slot -> Waiting \cup {Free}]
  PROVE  /\ Collect(p, c, w) \in [Fetch -> Promise \cup {NoLoad}]
         /\ \A f \in Fetch : Collect(p, c, w)[f] \in {p[f], NoLoad}
         /\ \A f \in Fetch : c = f => Collect(p, c, w)[f] = p[f]
         /\ \A o \in Slot : w[o] # Free => w[o].of \in Fetch /\ Collect(p, c, w)[w[o].of] = p[w[o].of]
<1>1. \A o \in Slot : w[o] # Free => w[o].of \in Fetch
  BY RegistryApart
<1> QED BY <1>1 DEF Collect

(* What the catalog and the overviews are about, and what the dialog and     *)
(* its registrations are about: most actions disturb one of the two.         *)
CatalogInv ==
    /\ registered \subseteq Asset /\ told \subseteq registered
    /\ catalog \in Fetch \cup {NoFetch}
    /\ fetch \in [Fetch -> Promise \cup {NoLoad}]
    /\ overview \in [Slot -> Waiting \cup {Free}]
    /\ \A f \in Fetch : fetch[f].at = "rejected" => catalog # f
    /\ PromisesKept /\ CatalogFresh /\ MustIsTold /\ RegisteredIsCarried

DialogInv ==
    /\ open \in BOOLEAN /\ loading \in BOOLEAN /\ saving \in BOOLEAN
    /\ success \in BOOLEAN /\ overlapped \in BOOLEAN
    /\ list \subseteq Asset /\ here \subseteq Asset
    /\ first \in Load \cup {NoLoad}
    /\ job \in [Job -> Submitted \cup {Idle}]
    /\ ~open => first = NoLoad /\ \A j \in Job : ~job[j].mine
    /\ \A j \in Job : job[j].at = "inserted" => job[j].asset \subseteq registered
    /\ DialogInOrder /\ RegisteredIsListed

RegistryInv ==
    /\ CatalogInv /\ DialogInv
    /\ apiUp \in BOOLEAN /\ error \in BOOLEAN /\ shown \subseteq Asset

LEMMA RegistryInitHolds == RegistryInit => RegistryInv
<1> SUFFICES ASSUME RegistryInit PROVE RegistryInv
  OBVIOUS
<1>1. CatalogInv
  BY DEF RegistryInit, CatalogInv, PromisesKept, CatalogFresh, MustIsTold,
         RegisteredIsCarried, NoLoad, Free
<1>2. DialogInv
  BY DEF RegistryInit, DialogInv, DialogInOrder, RegisteredIsListed, Idle
<1> QED BY <1>1, <1>2 DEF RegistryInit, RegistryInv

\* The catalog stands while more is registered.
LEMMA CatalogStands ==
  ASSUME CatalogInv, registered \subseteq registered', registered' \subseteq Asset,
         UNCHANGED <<told, catalog, fetch, overview>>
  PROVE  CatalogInv'
BY DEF CatalogInv, PromisesKept, CatalogFresh, MustIsTold, RegisteredIsCarried

\* The dialog stands while more is registered and told.
LEMMA DialogStands ==
  ASSUME DialogInv, registered \subseteq registered', told \subseteq told',
         UNCHANGED <<dialogVars, job>>
  PROVE  DialogInv'
BY DEF DialogInv, DialogInOrder, RegisteredIsListed, dialogVars

\* An overview begun now waits for a promise that has everything told so far,
\* or will read it.
LEMMA BeginKeeps ==
  ASSUME CatalogInv, NEW o \in Slot, BeginOverview(o, told), UNCHANGED <<registered, told>>
  PROVE  CatalogInv'
<1>a. told \subseteq Asset
  BY DEF CatalogInv
<1>1. PICK f \in Fetch :
        /\ overview' = [overview EXCEPT ![o] = [of |-> f, must |-> told]]
        /\ IF catalog # NoFetch THEN f = catalog /\ UNCHANGED <<catalog, fetch>>
           ELSE /\ fetch[f] = NoLoad
                /\ catalog' = f /\ fetch' = [fetch EXCEPT ![f] = Asked]
  BY DEF BeginOverview
<1>2. [of |-> f, must |-> told] \in Waiting
  BY <1>a DEF Waiting
<1>3. /\ overview' \in [Slot -> Waiting \cup {Free}]
      /\ overview'[o] = [of |-> f, must |-> told]
      /\ \A q \in Slot \ {o} : overview'[q] = overview[q]
  BY <1>1, <1>2 DEF CatalogInv
<1>4. \A q \in Slot : overview'[q] # Free => overview'[q].of \in Fetch
  BY <1>3, RegistryApart
<1>5. CASE catalog # NoFetch
  <2>1. f = catalog /\ catalog' = catalog /\ fetch' = fetch
    BY <1>1, <1>5
  <2> QED BY <1>3, <1>5, <2>1
          DEF CatalogInv, PromisesKept, CatalogFresh, MustIsTold, RegisteredIsCarried
<1>6. CASE catalog = NoFetch
  <2>1. fetch[f] = NoLoad /\ catalog' = f /\ fetch' = [fetch EXCEPT ![f] = Asked]
    BY <1>1, <1>6
  <2>2. /\ fetch' \in [Fetch -> Promise \cup {NoLoad}]
        /\ fetch'[f] = Asked /\ \A g \in Fetch \ {f} : fetch'[g] = fetch[g]
    BY <2>1, RegistryApart DEF CatalogInv
  <2>3. \A q \in Slot : q # o /\ overview[q] # Free => overview[q].of # f
    BY <2>1 DEF CatalogInv, PromisesKept
  <2>4. Asked # NoLoad /\ Asked.at = "asked" /\ f # NoFetch
    BY RegistryApart, SlotAssumption
  <2> QED BY <1>3, <1>4, <2>1, <2>2, <2>3, <2>4
          DEF CatalogInv, PromisesKept, CatalogFresh, MustIsTold, RegisteredIsCarried
<1> QED BY <1>5, <1>6

\* Dropping the catalog, or collecting what nobody waits for, harms nobody:
\* every promise somebody refers to is what it was, or came to its end.
LEMMA CollectKeeps ==
  ASSUME CatalogInv, NEW p \in [Fetch -> Promise \cup {NoLoad}],
         \A f \in Fetch : p[f].rows = fetch[f].rows,
         \A f \in Fetch : fetch[f] # NoLoad => p[f] # NoLoad,
         \A f \in Fetch : p[f].at \in {"read", "resolved"}
             => fetch[f].at \in {"read", "resolved"},
         catalog' \in {catalog, NoFetch}, registered' = registered,
         told \subseteq told', told' \subseteq registered,
         told' = told \/ catalog' = NoFetch,
         \A f \in Fetch : p[f].at = "rejected" => catalog' # f,
         overview' \in [Slot -> Waiting \cup {Free}],
         \A o \in Slot : overview'[o] \in {overview[o], Free},
         fetch' = Collect(p, catalog', overview')
  PROVE  CatalogInv'
<1>1. catalog' \in Fetch \cup {NoFetch}
  BY DEF CatalogInv
<1>2. /\ fetch' \in [Fetch -> Promise \cup {NoLoad}]
      /\ \A f \in Fetch : fetch'[f] \in {p[f], NoLoad}
      /\ \A f \in Fetch : catalog' = f => fetch'[f] = p[f]
      /\ \A o \in Slot : overview'[o] # Free
            => overview'[o].of \in Fetch /\ fetch'[overview'[o].of] = p[overview'[o].of]
  BY <1>1, Collected
<1>3. \A f \in Fetch : fetch'[f].at = "rejected" => catalog' # f
  BY <1>2, RegistryApart
<1>4. PromisesKept'
  BY <1>1, <1>2 DEF CatalogInv, PromisesKept
<1>5. CatalogFresh'
  BY <1>1, <1>2 DEF CatalogInv, CatalogFresh
<1>6. MustIsTold'
  BY RegistryApart DEF CatalogInv, MustIsTold
<1>7. RegisteredIsCarried'
  BY <1>2 DEF CatalogInv, RegisteredIsCarried
<1> QED BY <1>1, <1>2, <1>3, <1>4, <1>5, <1>6, <1>7 DEF CatalogInv

LEMMA SettleKeeps ==
  ASSUME CatalogInv, NEW f \in Fetch, NEW at \in {"resolved", "rejected"}, Settle(f, at),
         fetch[f].at \in {"asked", "read"}, at = "resolved" => fetch[f].at = "read",
         catalog' = IF at = "rejected" THEN NoFetch ELSE catalog,
         UNCHANGED <<registered, told, overview>>
  PROVE  CatalogInv'
<1> DEFINE p == [fetch EXCEPT ![f].at = at]
<1>1. fetch[f] \in Promise
  BY RegistryApart DEF CatalogInv
<1>2. [fetch[f] EXCEPT !.at = at] \in Promise /\ p[f].at = at /\ p[f].rows = fetch[f].rows
  BY <1>1 DEF Promise, CatalogInv
<1>3. /\ p \in [Fetch -> Promise \cup {NoLoad}]
      /\ p[f] # NoLoad /\ \A g \in Fetch \ {f} : p[g] = fetch[g]
  BY <1>2, RegistryApart DEF CatalogInv
<1>4. /\ \A g \in Fetch : p[g].rows = fetch[g].rows
      /\ \A g \in Fetch : fetch[g] # NoLoad => p[g] # NoLoad
      /\ \A g \in Fetch : p[g].at \in {"read", "resolved"} => fetch[g].at \in {"read", "resolved"}
  BY <1>2, <1>3
<1>5. \A g \in Fetch : p[g].at = "rejected" => catalog' # g
  BY <1>2, <1>3, SlotAssumption DEF CatalogInv
<1>6. overview' \in [Slot -> Waiting \cup {Free}] /\ told' \subseteq registered
  BY DEF CatalogInv
<1>7. fetch' = Collect(p, catalog', overview')
  BY DEF Settle, Collect
<1> HIDE DEF p
<1> QED BY <1>3, <1>4, <1>5, <1>6, <1>7, CollectKeeps

LEMMA LeaveKeeps ==
  ASSUME CatalogInv, NEW o \in Slot, Leave(o), UNCHANGED <<registered, told, catalog>>
  PROVE  CatalogInv'
<1>1. /\ overview' \in [Slot -> Waiting \cup {Free}]
      /\ \A q \in Slot : overview'[q] \in {overview[q], Free}
  BY DEF Leave, CatalogInv
<1>2. fetch' = Collect(fetch, catalog', overview')
  BY DEF Leave
<1>3. fetch \in [Fetch -> Promise \cup {NoLoad}] /\ told \subseteq registered
      /\ \A f \in Fetch : fetch[f].at = "rejected" => catalog' # f
  BY DEF CatalogInv
<1> QED BY <1>1, <1>2, <1>3, CollectKeeps

\* The API's answer to the catalog is everything that is registered.
LEMMA ReadKeeps ==
  ASSUME CatalogInv, NEW f \in Fetch, CatalogRead(f)
  PROVE  CatalogInv'
<1>1. /\ fetch' = [fetch EXCEPT ![f] = [at |-> "read", rows |-> registered]]
      /\ fetch[f].at = "asked" /\ UNCHANGED <<registered, told, catalog, overview>>
  BY DEF CatalogRead, apiVars
<1>2. [at |-> "read", rows |-> registered] \in Promise
  BY DEF Promise, CatalogInv
<1>3. /\ fetch' \in [Fetch -> Promise \cup {NoLoad}] /\ fetch'[f] # NoLoad
      /\ fetch'[f].at = "read" /\ fetch'[f].rows = registered
      /\ \A g \in Fetch \ {f} : fetch'[g] = fetch[g]
  BY <1>1, <1>2, RegistryApart DEF CatalogInv
<1>4. PromisesKept' /\ CatalogFresh' /\ MustIsTold'
  BY <1>1, <1>3 DEF CatalogInv, PromisesKept, CatalogFresh, MustIsTold
<1>5. RegisteredIsCarried'
  <2>1. \A o \in Slot : overview[o].must \subseteq registered
    BY DEF CatalogInv, MustIsTold
  <2>2. \A o \in Slot : overview[o] # Free => overview[o].of \in Fetch
    BY RegistryApart DEF CatalogInv
  <2> QED BY <1>1, <1>3, <2>1, <2>2 DEF CatalogInv, RegisteredIsCarried
<1> QED BY <1>1, <1>3, <1>4, <1>5 DEF CatalogInv

\* One job moves on, and the dialog takes what it brought.
LEMMA ReloadKeeps ==
  ASSUME CatalogInv, DialogInv, NEW j \in Job, NEW rows \in SUBSET Asset,
         NEW said \in BOOLEAN, job[j].at \in {"reload", "read"},
         job[j].mine /\ said => here \subseteq rows, ReloadEnds(j, rows, said)
  PROVE  CatalogInv' /\ DialogInv'
<1>1. CatalogInv'
  <2>1. PICK o \in Called : BeginOverview(o, told)
    BY DEF ReloadEnds
  <2> QED BY <2>1, BeginKeeps DEF ReloadEnds, apiVars, Slot
<1>2. /\ job' \in [Job -> Submitted \cup {Idle}] /\ job'[j] = Idle
      /\ \A k \in Job \ {j} : job'[k] = job[k]
      /\ job[j].mine \in BOOLEAN
  BY RegistryApart DEF ReloadEnds, DialogInv
<1>3. /\ list' = (IF job[j].mine THEN rows ELSE list)
      /\ success' = (IF job[j].mine THEN said ELSE success)
      /\ loading' = (loading /\ ~job[j].mine) /\ saving' = (saving /\ ~job[j].mine)
      /\ UNCHANGED <<registered, told, open, first, here, overlapped>>
  BY DEF ReloadEnds, apiVars
<1>4. /\ saving' \in BOOLEAN /\ loading' \in BOOLEAN /\ success' \in BOOLEAN
      /\ list' \subseteq Asset
  BY <1>2, <1>3 DEF DialogInv
<1>5. DialogInOrder'
  BY <1>2, <1>3, RegistryApart DEF DialogInv, DialogInOrder
<1>6. RegisteredIsListed'
  BY <1>2, <1>3 DEF DialogInv, RegisteredIsListed
<1> QED BY <1>1, <1>2, <1>3, <1>4, <1>5, <1>6, RegistryApart DEF DialogInv

\* The steps of a registration before its reload.
LEMMA JobKeeps ==
  ASSUME CatalogInv, DialogInv, NEW j \in Job,
         Insert(j) \/ RegisterFails(j) \/ ReloadRead(j) \/ \E a \in Asset : Submit(j, a)
  PROVE  CatalogInv' /\ DialogInv'
<1>0. job[j] \in Submitted \cup {Idle} /\ job[j].mine \in BOOLEAN
  BY RegistryApart DEF DialogInv
<1>1. CASE Insert(j)
  <2>1. job[j].at = "asked" /\ job[j] \in Submitted /\ job[j].asset \subseteq Asset
    BY <1>0, <1>1, RegistryApart DEF Insert
  <2>2. PICK at \in {"inserted", "refused"} :
          /\ at = "inserted" => job[j].asset \cap registered = {} /\ registered' # registered
          /\ job' = [job EXCEPT ![j].at = at]
    BY <1>1 DEF Insert
  <2>3. /\ registered \subseteq registered' /\ registered' \subseteq Asset
        /\ at = "inserted" => job[j].asset \subseteq registered'
        /\ UNCHANGED <<told, catalogVars, dialogVars>>
    BY <1>1, <2>1, <2>2 DEF Insert, CatalogInv
  <2>4. /\ job' \in [Job -> Submitted \cup {Idle}]
        /\ job'[j].at = at /\ job'[j].asset = job[j].asset /\ job'[j].mine = job[j].mine
        /\ \A k \in Job \ {j} : job'[k] = job[k]
    BY <2>1, <2>2 DEF Submitted, DialogInv
  <2>5. CatalogInv'
    BY <2>3, CatalogStands DEF catalogVars
  <2>6. DialogInv'
    BY <2>3, <2>4 DEF DialogInv, DialogInOrder, RegisteredIsListed, dialogVars
  <2> QED BY <2>5, <2>6
<1>2. CASE ReloadRead(j)
  <2>1. job[j] \in Submitted /\ job[j].at = "reload"
    BY <1>0, <1>2, RegistryApart DEF ReloadRead
  <2>2. /\ job' = [job EXCEPT ![j].at = "read", ![j].rows = registered]
        /\ UNCHANGED <<apiVars, told, catalogVars, dialogVars>>
    BY <1>2 DEF ReloadRead
  <2>3. registered \subseteq Asset /\ here \subseteq registered
    BY DEF CatalogInv, DialogInv, DialogInOrder
  <2>4. /\ job' \in [Job -> Submitted \cup {Idle}]
        /\ job'[j].at = "read" /\ job'[j].rows = registered /\ job'[j].mine = job[j].mine
        /\ \A k \in Job \ {j} : job'[k] = job[k]
    BY <2>1, <2>2, <2>3 DEF Submitted, DialogInv
  <2>5. CatalogInv'
    BY <2>2, <2>3, CatalogStands DEF catalogVars, apiVars
  <2>6. DialogInv'
    BY <2>2, <2>3, <2>4 DEF DialogInv, DialogInOrder, RegisteredIsListed, dialogVars, apiVars
  <2> QED BY <2>5, <2>6
<1>3. CASE RegisterFails(j)
  <2>1. /\ success' = (success /\ ~job[j].mine) /\ saving' = (saving /\ ~job[j].mine)
        /\ job' = [job EXCEPT ![j] = Idle]
        /\ UNCHANGED <<apiVars, told, catalogVars, open, list, loading, first, here, overlapped>>
    BY <1>3 DEF RegisterFails, NotSaved
  <2>2. /\ job' \in [Job -> Submitted \cup {Idle}] /\ job'[j] = Idle
        /\ \A k \in Job \ {j} : job'[k] = job[k]
    BY <2>1 DEF DialogInv
  <2>3. CatalogInv'
    BY <2>1, CatalogStands DEF catalogVars, apiVars, CatalogInv
  <2>4. DialogInOrder'
    BY <1>0, <2>1, <2>2, RegistryApart DEF DialogInv, DialogInOrder
  <2>5. RegisteredIsListed'
    BY <1>0, <2>1 DEF DialogInv, RegisteredIsListed
  <2>6. DialogInv'
    BY <1>0, <2>1, <2>2, <2>4, <2>5, RegistryApart DEF DialogInv, apiVars
  <2> QED BY <2>3, <2>6
<1>4. ASSUME NEW a \in Asset, Submit(j, a) PROVE CatalogInv' /\ DialogInv'
  <2> DEFINE s == [at |-> "asked", asset |-> {a}, rows |-> {}, mine |-> TRUE]
  <2>1. /\ open /\ ~saving /\ saving' = TRUE /\ success' = FALSE
        /\ job' = [job EXCEPT ![j] = s]
        /\ UNCHANGED <<apiVars, told, catalogVars, open, list, loading, first, here, overlapped>>
    BY <1>4 DEF Submit, MaySubmit
  <2>2. s \in Submitted
    BY DEF Submitted
  <2>3. /\ job' \in [Job -> Submitted \cup {Idle}] /\ job'[j].at = "asked"
        /\ \A k \in Job \ {j} : job'[k] = job[k] /\ ~job[k].mine
    BY <2>1, <2>2 DEF DialogInv, DialogInOrder
  <2>4. CatalogInv'
    BY <2>1, CatalogStands DEF catalogVars, apiVars, CatalogInv
  <2>5. DialogInv'
    BY <2>1, <2>3 DEF DialogInv, DialogInOrder, RegisteredIsListed, apiVars
  <2> QED BY <2>4, <2>5
<1> QED BY <1>1, <1>2, <1>3, <1>4

\* The operator is told of a registration: the catalog that may lack it goes.
LEMMA RegisteredKeeps ==
  ASSUME CatalogInv, DialogInv, NEW j \in Job, Registered(j)
  PROVE  CatalogInv' /\ DialogInv'
<1>1. /\ told' = told \cup job[j].asset /\ catalog' = NoFetch
      /\ fetch' = Collect(fetch, catalog', overview)
      /\ success' = (success \/ job[j].mine) /\ loading' = (loading \/ job[j].mine)
      /\ here' = IF job[j].mine THEN here \cup job[j].asset ELSE here
      /\ overlapped' = (overlapped \/ (job[j].mine /\ first # NoLoad))
      /\ job' = [job EXCEPT ![j].at = "reload", ![j].asset = {}]
      /\ UNCHANGED <<apiVars, overview, shown, error, open, list, saving, first>>
  BY DEF Registered, Invalidated
<1>2. /\ job[j].at = "inserted" /\ job[j] \in Submitted /\ job[j].mine \in BOOLEAN
      /\ job[j].asset \subseteq registered /\ job[j].asset \subseteq Asset
  BY RegistryApart DEF Registered, DialogInv
<1>3. CatalogInv'
  <2>1. /\ fetch \in [Fetch -> Promise \cup {NoLoad}] /\ told' \subseteq registered
        /\ overview' \in [Slot -> Waiting \cup {Free}] /\ registered' = registered
        /\ \A f \in Fetch : catalog' # f
    BY <1>1, <1>2, SlotAssumption DEF CatalogInv, apiVars
  <2>2. /\ \A o \in Slot : overview'[o] \in {overview[o], Free}
        /\ fetch' = Collect(fetch, catalog', overview')
    BY <1>1
  <2> QED BY <1>1, <2>1, <2>2, CollectKeeps
<1>4. /\ job' \in [Job -> Submitted \cup {Idle}]
      /\ job'[j].at = "reload" /\ job'[j].mine = job[j].mine
      /\ \A k \in Job \ {j} : job'[k] = job[k]
  BY <1>1, <1>2 DEF Submitted, DialogInv
<1>5. DialogInOrder'
  BY <1>1, <1>2, <1>4 DEF DialogInv, DialogInOrder
<1>6. RegisteredIsListed'
  BY <1>1, <1>2 DEF DialogInv, DialogInOrder, RegisteredIsListed
<1>7. here' \subseteq Asset /\ success' \in BOOLEAN /\ loading' \in BOOLEAN
      /\ overlapped' \in BOOLEAN
  BY <1>1, <1>2 DEF DialogInv
<1> QED BY <1>1, <1>2, <1>3, <1>4, <1>5, <1>6, <1>7 DEF DialogInv, apiVars

\* The dialog opens, closes, is cleared and gets the list it opened with.
LEMMA DialogKeeps ==
  ASSUME CatalogInv, DialogInv,
         Open \/ Close \/ ClearForm \/ FirstRead \/ FirstArrives \/ FirstFails
  PROVE  CatalogInv' /\ DialogInv'
<1>1. CatalogInv'
  <2>1. UNCHANGED <<apiVars, told, catalogVars>>
    BY DEF Open, Close, ClearForm, FirstRead, FirstArrives, FirstFails
  <2> QED BY <2>1, CatalogStands DEF CatalogInv, apiVars, catalogVars
<1>2. CASE Open
  <2>1. Asked \in Load
    BY RegistryApart
  <2> QED BY <1>1, <1>2, <2>1
          DEF Open, DialogInv, DialogInOrder, RegisteredIsListed, apiVars
<1>3. CASE Close
  <2>1. /\ ~open' /\ ~success' /\ ~loading' /\ ~saving' /\ ~overlapped'
        /\ list' = {} /\ first' = NoLoad /\ here' = {}
        /\ job' = [k \in Job |-> [job[k] EXCEPT !.mine = FALSE]]
        /\ UNCHANGED <<apiVars, told>>
    BY <1>3 DEF Close
  <2>2. \A k \in Job : job[k] \in Submitted \cup {Idle}
    BY DEF DialogInv
  <2>3. \A s \in Submitted : [s EXCEPT !.mine = FALSE] \in Submitted
    BY DEF Submitted
  <2>4. [Idle EXCEPT !.mine = FALSE] = Idle
    <3> DEFINE still == [at : {"idle"}, asset : {{}}, rows : {{}}, mine : {FALSE}]
    <3>1. Idle \in still
      BY DEF Idle
    <3>2. \A s \in still : [s EXCEPT !.mine = FALSE] = s
      OBVIOUS
    <3> QED BY <3>1, <3>2
  <2>5. /\ job' \in [Job -> Submitted \cup {Idle}] /\ \A k \in Job : ~job'[k].mine
        /\ \A k \in Job : job'[k].at = job[k].at /\ job'[k].asset = job[k].asset
    <3>1. job' \in [Job -> Submitted \cup {Idle}]
      BY <2>1, <2>2, <2>3, <2>4
    <3>2. \A s \in Submitted \cup {Idle} :
            /\ [s EXCEPT !.mine = FALSE].mine = FALSE
            /\ [s EXCEPT !.mine = FALSE].at = s.at
            /\ [s EXCEPT !.mine = FALSE].asset = s.asset
      BY DEF Submitted, Idle
    <3> QED BY <2>1, <2>2, <3>1, <3>2
  <2>6. open' \in BOOLEAN /\ success' \in BOOLEAN /\ loading' \in BOOLEAN
        /\ saving' \in BOOLEAN /\ overlapped' \in BOOLEAN
    BY <1>3 DEF Close
  <2> QED BY <1>1, <2>1, <2>5, <2>6
          DEF DialogInv, DialogInOrder, RegisteredIsListed, apiVars
<1>4. CASE ClearForm
  BY <1>1, <1>4 DEF ClearForm, DialogInv, DialogInOrder, RegisteredIsListed, apiVars
<1>5. CASE FirstRead
  <2>1. first # NoLoad /\ [at |-> "read", rows |-> registered] \in Load
    BY <1>5, RegistryApart DEF FirstRead, Load, CatalogInv
  <2> QED BY <1>1, <1>5, <2>1
          DEF FirstRead, DialogInv, DialogInOrder, RegisteredIsListed, apiVars
<1>6. CASE FirstArrives
  <2>1. first # NoLoad /\ first.rows \subseteq Asset
    BY <1>6, RegistryApart DEF FirstArrives, DialogInv, Load
  <2> QED BY <1>1, <1>6, <2>1
          DEF FirstArrives, DialogInv, DialogInOrder, RegisteredIsListed, apiVars
<1>7. CASE FirstFails
  BY <1>1, <1>7 DEF FirstFails, DialogInv, DialogInOrder, RegisteredIsListed, apiVars
<1> QED BY <1>2, <1>3, <1>4, <1>5, <1>6, <1>7

LEMMA RegistryStepKeeps == RegistryInv /\ [RegistryNext]_registryVars => RegistryInv'
<1> SUFFICES ASSUME RegistryInv, [RegistryNext]_registryVars PROVE RegistryInv'
  OBVIOUS
<1>a. /\ CatalogInv /\ DialogInv
      /\ apiUp \in BOOLEAN /\ error \in BOOLEAN /\ shown \subseteq Asset
  BY DEF RegistryInv
<1>1. CASE GoDown \/ ComeUp \/ UNCHANGED registryVars
  <2>1. UNCHANGED <<registered, told, catalogVars, dialogVars, job>> /\ apiUp' \in BOOLEAN
    BY <1>a, <1>1 DEF GoDown, ComeUp, registryVars, apiVars
  <2>2. registered' = registered /\ registered \subseteq Asset
    BY <1>a, <2>1 DEF CatalogInv
  <2>3. CatalogInv' /\ DialogInv'
    BY <1>a, <2>1, <2>2, CatalogStands, DialogStands DEF catalogVars
  <2> QED BY <1>a, <2>1, <2>3 DEF RegistryInv, catalogVars
<1>2. ASSUME NEW a \in Asset, RegisterElsewhere(a)
      PROVE  /\ CatalogInv' /\ DialogInv'
             /\ UNCHANGED <<apiUp, error, shown>>
  <2>1. /\ registered \subseteq registered' /\ registered' \subseteq Asset
        /\ UNCHANGED <<apiUp, told, catalogVars, dialogVars, job>>
    BY <1>a, <1>2 DEF RegisterElsewhere, CatalogInv
  <2> QED BY <1>a, <2>1, CatalogStands, DialogStands DEF catalogVars
<1>3. ASSUME NEW f \in Fetch, CatalogRead(f) \/ Resolve(f) \/ Reject(f)
      PROVE  /\ CatalogInv' /\ DialogInv'
             /\ UNCHANGED <<apiUp, error, shown>>
  <2>1. UNCHANGED <<apiVars, told, shown, error, dialogVars, job>>
    BY <1>3 DEF CatalogRead, Resolve, Reject
  <2>2. ASSUME CatalogRead(f) PROVE CatalogInv'
    BY <1>a, <2>2, ReadKeeps
  <2>3. ASSUME Resolve(f) PROVE CatalogInv'
    <3>1. fetch[f].at = "read" /\ Settle(f, "resolved") /\ UNCHANGED <<catalog, overview>>
      BY <2>3 DEF Resolve
    <3>2. "resolved" \in {"resolved", "rejected"} /\ "resolved" # "rejected"
      OBVIOUS
    <3> QED BY <1>a, <2>1, <3>1, <3>2, SettleKeeps DEF apiVars
  <2>4. ASSUME Reject(f) PROVE CatalogInv'
    <3>1. /\ fetch[f].at \in {"asked", "read"} /\ Settle(f, "rejected")
          /\ catalog' = NoFetch /\ UNCHANGED overview
      BY <2>4 DEF Reject
    <3>2. "rejected" \in {"resolved", "rejected"} /\ "resolved" # "rejected"
      OBVIOUS
    <3> QED BY <1>a, <2>1, <3>1, <3>2, SettleKeeps DEF apiVars
  <2> QED BY <1>a, <1>3, <2>1, <2>2, <2>3, <2>4, DialogStands DEF apiVars
<1>4. ASSUME NEW o \in Poll, Tick(o)
      PROVE  /\ CatalogInv' /\ DialogInv'
             /\ UNCHANGED <<apiUp, error, shown>>
  BY <1>a, <1>4, BeginKeeps, DialogStands DEF Tick, Slot, apiVars
<1>5. ASSUME NEW o \in Slot, OverviewArrives(o) \/ OverviewFails(o)
      PROVE  /\ CatalogInv' /\ DialogInv'
             /\ apiUp' = apiUp /\ error' \in BOOLEAN /\ shown' \subseteq Asset
  <2>1. Leave(o) /\ UNCHANGED <<apiVars, told, catalog, dialogVars, job>> /\ error' \in BOOLEAN
    BY <1>a, <1>5 DEF OverviewArrives, OverviewFails
  <2>2. shown' \subseteq Asset
    <3>1. CASE OverviewArrives(o)
      <4>1. overview[o].of \in Fetch /\ shown' = fetch[overview[o].of].rows
        BY <1>a, <3>1, RegistryApart DEF OverviewArrives, CatalogInv
      <4>2. \A f \in Fetch : fetch[f].rows \subseteq Asset
        BY <1>a, RegistryApart DEF CatalogInv, NoLoad
      <4> QED BY <4>1, <4>2
    <3> QED BY <1>a, <1>5, <3>1 DEF OverviewFails
  <2> QED BY <1>a, <2>1, <2>2, LeaveKeeps, DialogStands DEF apiVars
<1>6. ASSUME Open \/ Close \/ ClearForm \/ FirstRead \/ FirstArrives \/ FirstFails
      PROVE  /\ CatalogInv' /\ DialogInv'
             /\ UNCHANGED <<apiUp, error, shown>>
  BY <1>a, <1>6, DialogKeeps
     DEF Open, Close, ClearForm, FirstRead, FirstArrives, FirstFails, apiVars, catalogVars
<1>7. ASSUME NEW j \in Job, Insert(j) \/ RegisterFails(j) \/ ReloadRead(j)
                              \/ \E a \in Asset : Submit(j, a)
      PROVE  /\ CatalogInv' /\ DialogInv'
             /\ UNCHANGED <<apiUp, error, shown>>
  BY <1>a, <1>7, JobKeeps
     DEF Insert, RegisterFails, ReloadRead, Submit, apiVars, catalogVars
<1>8. ASSUME NEW j \in Job, Registered(j)
      PROVE  /\ CatalogInv' /\ DialogInv'
             /\ UNCHANGED <<apiUp, error, shown>>
  BY <1>a, <1>8, RegisteredKeeps DEF Registered, apiVars
<1>9. ASSUME NEW j \in Job, ReloadArrives(j) \/ ReloadFails(j)
      PROVE  /\ CatalogInv' /\ DialogInv'
             /\ UNCHANGED <<apiUp, error, shown>>
  <2>1. job[j].rows \subseteq Asset /\ list \subseteq Asset /\ success \in BOOLEAN
    BY <1>a, RegistryApart DEF DialogInv, Idle
  <2>2. CASE ReloadArrives(j)
    <3>1. job[j].mine /\ success => here \subseteq job[j].rows
      BY <1>a, <2>2 DEF ReloadArrives, DialogInv, DialogInOrder
    <3> QED BY <1>a, <2>1, <2>2, <3>1, ReloadKeeps DEF ReloadArrives, ReloadEnds, apiVars
  <2>3. CASE ReloadFails(j)
    BY <1>a, <2>1, <2>3, ReloadKeeps DEF ReloadFails, ReloadEnds, apiVars
  <2> QED BY <1>9, <2>2, <2>3
<1> QED BY <1>a, <1>1, <1>2, <1>3, <1>4, <1>5, <1>6, <1>7, <1>8, <1>9
        DEF RegistryInv, RegistryNext

LEMMA RegistryInvariance == RegistrySpec => []RegistryInv
  BY RegistryInitHolds, RegistryStepKeeps, PTL DEF RegistrySpec

------------------------------------------------------------------------------
(* The asset registry: the theorems.                                        *)

\* The catalog, the overviews that wait for it and the dialog always have the
\* types the code gives them; a promise that was rejected is never the one at
\* hand, and a closed dialog has nothing under way.
THEOREM RegistryTypeCorrect == RegistrySpec => []RegistryTypeOK
<1>1. RegistryInv => RegistryTypeOK
  BY DEF RegistryInv, RegistryTypeOK, CatalogInv, DialogInv
<1> QED BY <1>1, RegistryInvariance, PTL

\* forest-api.ts:91-107: an overview that was begun after the operator was told
\* of a registration carries that asset's master data, for any number of
\* overviews, requests and registrations at a time.
THEOREM NewAssetIsCarried == RegistrySpec => []RegisteredIsCarried
<1>1. RegistryInv => RegisteredIsCarried
  BY DEF RegistryInv, CatalogInv
<1> QED BY <1>1, RegistryInvariance, PTL

\* AssetRegistryModal.tsx: after a success the list has what this dialog
\* registered, unless that overlapped with the load it was opened with.
THEOREM NewAssetIsListed == RegistrySpec => []RegisteredIsListed
<1>1. RegistryInv => RegisteredIsListed
  BY DEF RegistryInv, DialogInv
<1> QED BY <1>1, RegistryInvariance, PTL

------------------------------------------------------------------------------
(* Why a form is disabled and a list is loading.                            *)

BusyForAReason ==
    /\ saving => \E j \in Job : job[j].mine
    /\ loading => first # NoLoad \/ \E j \in Job : job[j].mine /\ job[j].at \in {"reload", "read"}

\* One registration moves from `at` to `next`, or ends.
LEMMA JobKeepsBusy ==
  ASSUME RegistryInv, BusyForAReason, NEW j \in Job,
         \/ Insert(j) \/ RegisterFails(j) \/ ReloadRead(j) \/ Registered(j)
         \/ ReloadArrives(j) \/ ReloadFails(j)
  PROVE  BusyForAReason'
<1>a. /\ job \in [Job -> Submitted \cup {Idle}] /\ job[j].mine \in BOOLEAN
      /\ saving \in BOOLEAN /\ loading \in BOOLEAN
      /\ \A k \in Job : job[k].mine /\ job[j].mine => k = j
  BY RegistryApart DEF RegistryInv, DialogInv, DialogInOrder
<1>1. CASE Insert(j)
  <2>1. job[j].at = "asked" /\ UNCHANGED <<saving, loading, first>>
    BY <1>1 DEF Insert, dialogVars
  <2>2. job'[j].mine = job[j].mine /\ \A k \in Job \ {j} : job'[k] = job[k]
    BY <1>a, <1>1, <2>1, RegistryApart DEF Insert, Submitted
  <2> QED BY <2>1, <2>2 DEF BusyForAReason
<1>2. CASE ReloadRead(j)
  <2>1. job[j].at = "reload" /\ UNCHANGED <<saving, loading, first>>
    BY <1>2 DEF ReloadRead, dialogVars
  <2>2. /\ job'[j].mine = job[j].mine /\ job'[j].at = "read"
        /\ \A k \in Job \ {j} : job'[k] = job[k]
    BY <1>a, <1>2, <2>1, RegistryApart DEF ReloadRead, Submitted
  <2> QED BY <2>1, <2>2 DEF BusyForAReason
<1>3. CASE Registered(j)
  <2>1. /\ job[j].at = "inserted" /\ loading' = (loading \/ job[j].mine)
        /\ UNCHANGED <<saving, first>>
    BY <1>3 DEF Registered
  <2>2. /\ job'[j].mine = job[j].mine /\ job'[j].at = "reload"
        /\ \A k \in Job \ {j} : job'[k] = job[k]
    BY <1>a, <1>3, <2>1, RegistryApart DEF Registered, Submitted
  <2> QED BY <1>a, <2>1, <2>2 DEF BusyForAReason
<1>4. CASE RegisterFails(j)
  <2>1. /\ job[j].at \in {"asked", "inserted", "refused"} /\ saving' = (saving /\ ~job[j].mine)
        /\ job' = [job EXCEPT ![j] = Idle] /\ UNCHANGED <<loading, first>>
    BY <1>4 DEF RegisterFails, NotSaved
  <2>2. \A k \in Job \ {j} : job'[k] = job[k]
    BY <1>a, <2>1
  <2> QED BY <1>a, <2>1, <2>2 DEF BusyForAReason
<1>5. CASE ReloadArrives(j) \/ ReloadFails(j)
  <2>1. /\ saving' = (saving /\ ~job[j].mine) /\ loading' = (loading /\ ~job[j].mine)
        /\ job' = [job EXCEPT ![j] = Idle] /\ UNCHANGED first
    BY <1>5 DEF ReloadArrives, ReloadFails, ReloadEnds
  <2>2. \A k \in Job \ {j} : job'[k] = job[k]
    BY <1>a, <2>1
  <2> QED BY <1>a, <2>1, <2>2 DEF BusyForAReason
<1> QED BY <1>1, <1>2, <1>3, <1>4, <1>5

\* AssetRegistryModal.tsx:61-123: the form is disabled only while a registration
\* of this very dialog is under way, and the list is "loading" only while one of
\* its requests is: nothing that fails, or that a closed dialog left behind, can
\* leave them so.
THEOREM NoFormStuck == RegistrySpec => []BusyForAReason
<1>1. RegistryInit => BusyForAReason
  BY DEF RegistryInit, BusyForAReason
<1>2. RegistryInv /\ BusyForAReason /\ [RegistryNext]_registryVars => BusyForAReason'
  <2> SUFFICES ASSUME RegistryInv, BusyForAReason, [RegistryNext]_registryVars
               PROVE  BusyForAReason'
    OBVIOUS
  <2>1. ASSUME NEW j \in Job,
               \/ Insert(j) \/ RegisterFails(j) \/ ReloadRead(j) \/ Registered(j)
               \/ ReloadArrives(j) \/ ReloadFails(j)
        PROVE  BusyForAReason'
    BY <2>1, JobKeepsBusy
  <2>2. ASSUME NEW j \in Job, NEW a \in Asset, Submit(j, a) PROVE BusyForAReason'
    <3>1. /\ saving' /\ job'[j].mine /\ UNCHANGED <<loading, first>>
          /\ \A k \in Job \ {j} : job'[k] = job[k]
      BY <2>2 DEF Submit, RegistryInv, DialogInv
    <3>2. ~job[j].mine
      BY <2>2, RegistryApart DEF Submit
    <3> QED BY <3>1, <3>2 DEF BusyForAReason
  <2>3. CASE Open
    <3>1. first' # NoLoad /\ ~saving'
      BY <2>3, RegistryApart DEF Open
    <3> QED BY <3>1 DEF BusyForAReason
  <2>4. CASE Close \/ FirstArrives \/ FirstFails
    BY <2>4 DEF Close, FirstArrives, FirstFails, BusyForAReason
  <2>5. CASE ClearForm \/ FirstRead
    <3>1. first # NoLoad => first' # NoLoad
      BY <2>5, RegistryApart DEF ClearForm, FirstRead, NoLoad
    <3> QED BY <2>5, <3>1 DEF ClearForm, FirstRead, BusyForAReason
  <2>6. ASSUME \/ GoDown \/ ComeUp \/ \E a \in Asset : RegisterElsewhere(a)
               \/ \E f \in Fetch : CatalogRead(f) \/ Resolve(f) \/ Reject(f)
               \/ \E o \in Poll : Tick(o)
               \/ \E o \in Slot : OverviewArrives(o) \/ OverviewFails(o)
               \/ UNCHANGED registryVars
        PROVE  BusyForAReason'
    <3>1. UNCHANGED <<dialogVars, job>>
      BY <2>6 DEF GoDown, ComeUp, RegisterElsewhere, CatalogRead, Resolve, Reject, Tick,
                  OverviewArrives, OverviewFails, registryVars
    <3> QED BY <3>1 DEF BusyForAReason, dialogVars
  <2> QED BY <2>1, <2>2, <2>3, <2>4, <2>5, <2>6 DEF RegistryNext
<1> QED BY <1>1, <1>2, RegistryInvariance, PTL DEF RegistrySpec
================================================================================
