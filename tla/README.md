# Verification of the forest-disaster system

This directory holds TLA+ models of the forest-disaster platform, the TLC
configurations that check them on small instances, and TLAPS proofs of what
matters most for every instance.  The platform takes in telemetry and analysis
results of field devices during wildfires and landslides, keeps them in
PostgreSQL and shows them on a situation board.

Every definition is translated from the source; `PROJECT.json` maps each one to
its file and lines, and lists the hazards the properties are for.

## 1. The system

Four programs and a database (paths relative to `src/`):

| Part | Code | State | Operations |
| --- | --- | --- | --- |
| Integration API | `forest-back-demo/src/routes/integrations.ts`, `integrations/shared/` | table `core.integration_message`, the result tables | `POST /:capability/invoke` calls an external service, `POST /:capability/results` stores a result; both idempotent over a log |
| Device onboarding | `routes/device-onboarding.ts`, `routes/assets.ts`, `services/audit.ts` | assets, credentials, assignments, deployments, audit log, signed tokens | register, change status, issue and revoke credentials, assign and release persons, activate devices and gateways |
| Reporting authority | `services/asset-identity.ts`, the claim checks of `integrations.ts`, `result-store.ts` | reporting routes, stored positions | checks every report against token, route, device state and assignment |
| Operator commands | `routes/resources.ts`, `routes/events.ts`, `services/database.ts` | alerts, deliveries, tasks, recommendations, events | draft, issue and acknowledge alerts, decide, change status |
| Reads | the same files | none | latest rows, timeline, topology, keyset pages |
| GCS adapter | `forest-gcs-adapter/src/` | one telemetry per drone, a send slot and two flags, a cached event | hears MAVLink over UDP and posts over HTTP, forwards the newest |
| Situation board | `forest-front-demo/src/` | React state and refs of one page | polls events every 10 s, the overview every second, the timeline every minute; plays history back |
| Live map | `LivePositionMap.tsx` | React's props and refs; MapLibre's sources, layers, paints | effects bring the map up to date, at once or when it has loaded; switches, camera, pulse |
| Asset registry | `AssetRegistryModal.tsx`, `http-api/forest-api.ts` | the dialog's list and form; one cached promise of the catalog | lists and registers assets; every overview waits for the promise |
| Device simulator | `forest-api-shoot/` | the page's cards, selection, timers and requests; the server keeps nothing | plays 26 devices and services: runs one, some or all contract tests, once or in a continuous loop |
| Schema | `database/*.sql` | UNIQUE constraints, partial unique indexes, checks | the only serialisation point of concurrent requests |

How they interact: adapter, simulator and devices call the API over HTTP; the API
calls external services over HTTP with a 5 s timeout; the board polls the API;
nothing is pushed.  The API is a single-threaded Node process without
transactions: each `await` on a Supabase statement lets every other request run,
and several statements of one request are several transactions.  What keeps
concurrent requests apart is the database's constraints and nothing else.

### What is hard about it

* **Interleaving at awaits.**  A handler reads three rows one after the other and
  writes a fourth; every row may have changed (activation, assignment, reports).
* **Partial failure.**  Updates, inserts and audit rows of one request are not
  atomic: a failure or crash leaves a prefix.
* **Duplicates and lost answers.**  Clients retry with the same `requestId`, also
  while the first attempt runs; a database answer may be lost after the
  statement was applied; a service may act after its caller gave up.
* **Stale authority.**  A token lives 15 minutes, the assignment behind it may
  end at once.
* **Coalescing and single flight.**  The adapter's loop shares two booleans and a
  slot with its listener: a wake-up could be lost.
* **Late answers.**  The board never cancels a request; answers overtake each
  other, arrive after a switch of the event, or come from before an outage.
* **Two owners of one picture.**  MapLibre keeps what it was given; an effect that
  finds it busy leaves its drawing to an event that fires once.
* **A shared promise.**  Overviews of every second wait for the same catalog request,
  which a registration drops while they wait and a failure drops for all.
* **Timers started twice.**  The simulator's page keeps one timer handle for a loop
  that a stop and a start may have doubled.

### What makes each part correct

* Integration API: one row and one effect per key whatever is retried; no
  recorded success without its effect; what a client was told stays true; every
  message settles.
* Onboarding: one active device per person and event; nothing revoked, expired or
  released activates again; a token has an origin; a stopped device is
  revived only by an administrator; every status change is audited.  (The last two fail in
  one place each, see section 5.)
* Reports: a position is stored only for a person who holds the device, only in
  the token's event, by proxy only over a route, and never on an authority that
  had ended when the report came.
* Commands: nobody is queued twice, deliveries belong to issued alerts, who is
  answered that an alert is issued finds somebody queued for it, the audit trail is true
  and complete.
* Adapter: one loop, sends in order and once, the newest is always tried.
* Board: no moved marker goes unnoticed, the last version is shown in the end, banners
  go away, playback shows the selected event's true history and ends.
* Map: nothing is drawn from an old value for good, markers stay on top, no pulse
  outlives its change, the operator's view is kept while the event is the same.
* Asset registry: what the operator was told is registered has its master data in every
  overview begun later; a failed catalog request is not kept; no form stays disabled.
* Simulator console: a card never says more than happened, a continuous test neither
  dies silently nor outlives its stop.

## 2. The modules and the code they stand for

**MessageLedger** is the abstract specification of the message log: for each idempotency
key an entry (absent, open, succeeded, failed) and at most one effect.

**Mailbox** is the abstract specification of the adapter's listener: one number in hand,
which is replaced by the newest or put down when it is the newest.

**IntegrationMessages** is the API in detail.  Each element of `Request` is one HTTP
request, handled once; a retry is another element with the same body.  One action
per await: `BeginMessage`/`BeginConflicts` is the insert of `message-log.ts:14-45`
that succeeds or meets the UNIQUE constraint, `AnswerDuplicate` the lookup that
follows, `StoreResult`/`StoreThrows`/`StoreNothing` is `result-store.ts`, `SendCall`,
`CallAnswers`, `CallFails` the JSON call with its timeout, `FinishOk`,
`FinishOkThrows` and `FinishFailed` the status update and the catch block.
`Faults` names which failures occur: a statement that fails, one that is applied
and whose answer is lost, a crash, a slow service.  `Ledger == INSTANCE MessageLedger
WITH ...` maps rows to entries and stored rows and executed calls to effects.

**DeviceOnboarding** follows a device from registration to its token.  A `Handler`
is a slot of the Node process: its `job` records which await it is at and what it has
read, so stale reads are in the model as they are in the code.  `Activate` is split
into its six statements.  `Fits` is the two partial unique indexes.  `gone` is a
history variable that remembers what was dead when an activation arrived.

**DeviceReports** EXTENDS DeviceOnboarding: reports pass the checks of the code in the
code's order (`Checks`), each an await, while onboarding goes on.  There are three
kinds: a position and an asset status through the integration API, and one item of
`POST /events/:eventId/asset-statuses:batch`, which finds its reporter in another place
(`EffectiveOf`) and checks the authority of services too (`Vouched`).

**EventCommands** has one command per HTTP request: alert issue is a status
update, an insert of all deliveries against the UNIQUE constraint, and an audit
row; each is a step, and a command may stop before any of them.

**GcsAdapter** has the store, the listener and its loop (`Listen`, `Again`), the API
client with its cached event and probe, MAVLink and HTTP arrivals.  An action is
what runs between two awaits.  `HearOther` stands for the MAVLink messages that
report the position last heard.  `Box == INSTANCE Mailbox WITH ...` maps the arrival
numbers to the mailbox and the item of the one run that works (0 while `sending` is
false) to what is in hand; `latest` and `pending` have no counterpart, they are how the
code remembers that something newer waits.

**Dashboard** is the polling half of the board: event list, selection, the effect with
its `active` flag (`Restart`), overlapping overview requests, change detection,
banner.  An overview is a version of the event's data; its 14 requests are one.
`Moves` are the versions that changed a marker's `Fingerprint`; the others only
carry a newer timestamp, so both halves of the comparison in `Notice` are there.

**EventTimeline** is the playing half: both timeline queries with their limits, the
refresh effect with its fallback, the snapshots, the player.

**ShootConsole** is the page of the simulator and its server: every button, timer and
request.  A request (`Call`) carries what it runs and the outcomes the server has so
far; `SettleTest` is one exchange of the server with the API.  `Answer` and `NoAnswer`
end it (the page gives up after 5.5 s), and a cycle that ends arms the next timer
(`ArmNext`).  `timers` are those the browser will fire, `continuousTimer` the one handle
the page remembers.

**MapView** is the map below the board.  An action is one commit of React with the effects
it runs, in the order of the file (`Commit`: `CameraEffect`, `DrawingEffects`,
`PulseEffect`), or one callback of the browser (`FireLoad`, `TilesArrive`, `Animate`).  Which effects
a commit runs follows from their dependency lists (`LayersRerun`, `FieldReruns`,
`PulseReruns`).  `waiting` holds the drawings left to the event "load"; `After` says that
data just given to a source may make the map busy for the next effect; `above` are the
domain layers that cover the markers, which a first drawing raises (`Raised`) and the
markers' drawing lowers (`AfterField`).

**AssetRegistry** has the cached promise (`catalog`, and `fetch` for the promises that
overviews still wait for, the dropped ones included), polled overviews and those a
registration begins, the dialog, and its submissions, which go on when the dialog is closed.
`must`, `here` and `overlapped` are history variables: what was told when an overview was
begun, what this dialog registered, and whether its first load was then under way.

Two pairs share an interface and are not composed: Dashboard decides which
overview is shown, and MapView takes any, which is more; AssetRegistry adds to an overview
the catalog it waits for, and Dashboard's overviews may take any time.

The modules `MC*` give the constants values; `*_proof` hold the theorems.

## 3. The runs

Deadlock is checked where the system cannot stop (onboarding, reports, board, map,
registry, timeline, console).  It is off for the messages and commands, whose requests are
finitely many and end, and for the adapter, whose observations are bounded.

| Run | Instance | What it shows |
| --- | --- | --- |
| `messages_safety` | three requests, two capabilities, two request ids, one observation, all four kinds of fault | one effect per key; successes are backed; answers stay true; the handlers refine the ledger |
| `messages_liveness` | two requests, three capabilities, slow services | no handler answers before its message is settled; every message settles |
| `onboarding_safety` | one terminal with two persons, or one gateway; two handlers that may stop anywhere | nothing revoked, expired or released activates; tokens have an origin; who else than an administrator can revive a stopped device |
| `reports_authority` | a terminal in two events, a gateway and a route, three assignments, one report of any kind and one administrator at a time | the three rules of reporting authority |
| `commands_safety` | three commands, one alert, two recipients, two channels, stops anywhere | issued before delivered, no answer "issued" with nobody queued, a true and complete audit trail |
| `adapter` | two drones of which one has no UUID, four observations, refusals and lost exchanges | one loop, order, no lost wake-up, a mailbox |
| `dashboard` | two events, two requests in flight, one change per event, one outage | no missed move; the board catches up; the banner goes away |
| `timeline` | two events, two things, a window of two snapshots, two rows, limits of one row | own and true history; playback ends |
| `map_view` | an event with and one without coordinates, three overviews, one domain layer | nothing old without a drawing that waits; pulses end; the view is kept; order and picture are restored |
| `asset_registry` | one asset, two catalog requests, one polled and one called overview, two registrations | later overviews carry what was registered; board and form recover |
| `shoot_console` | two tests, two requests, three timers, two loops | cards tell the truth; loops live on, stop and end |
| `onboarding_audit` | *violated* | a first activation leaves no audit row |

The type invariants, and one row per key, one active assignment
per person, one queue entry per recipient, are proved for all constants and not run again.

### Why the bounds are enough

* *Requests, handlers, commands.*  A race in these programs is between two requests;
  the third command or request lets a retry come after a race that went wrong.  The
  proofs lift all these bounds.
* *Onboarding* follows one asset (`OneAsset`): no statement of the code joins two
  assets, except a route, which is in `reports_authority`.
* *Reports* start from devices that are activated and whose credentials have
  expired (`MCInit`), a state the onboarding model reaches; what remains is what may
  change around a report.  No token expires there: a live token lets more begin.  One stored row (`MaxRows`) is enough as every property
  speaks of one row or one report.
* *Adapter*: with four observations a send, a pending item, its replacement and one
  more arrival after the loop ended all occur.  Two loops are one more than may run.
* *Board*: two events make one switch and its way back; two requests in flight make
  one overtaking; one version change and one outage each make one late answer.
  `OneEventSpec` starts with e1 or no event: the two events are alike.
* *Console*: a stop and a start during a cycle make the second loop, and a third is
  made the same way (`MaxLoops`).  Two loops need two calls and two timers; the third
  timer id lets the remembered handle be a stale one.
* *Map*: two overviews of one event and one of another make a refresh and a switch, with
  and without coordinates and layers; layers do not depend on each other, so one is enough
  (the order is between a layer and the markers).
* *Registry*: nothing compares two assets, whose codes are their own; two catalog
  requests are a dropped one and its successor; a registration that was left
  running by a closed dialog and one of the next dialog are two.  A polled overview
  and one that a registration begins differ in the banner, so there is one of each.
* *Timeline*: two rows and limits of one row make a cut; `HomeNext` keeps t1 in one
  event, as a thing in two events only repeats what t2 does.  Time advances one
  tick of two to the minute, so rows fall before, within and after `to`.

### Fairness

* `IntegrationMessages`: weak fairness of each handler.  The event loop resumes a
  handler whose await has completed and an outbound call is aborted after 5 s
  (`json-http-adapter.ts:19`), so every await completes.  No fairness for the service.
* `GcsAdapter`: weak fairness of each loop's step: `fetch` answers, fails or is aborted
  after 5 s.
* `ShootConsole`: every request ends, answered or aborted after 5.5 s (`app.js:13`), and
  armed timers fire.  No button is ever pressed by fairness.
* `Dashboard` and `EventTimeline`: timers fire, requests end, the API comes up again.
  The strong fairness says two things the code gives and the bounds take away: a timer
  does not wait for a free slot (there are only as many as the bound), and requests
  with `active` set are answered and arrive now and then, because the interval that
  disowns them is longer than the one that makes them (10 s against 1 s; in the timeline
  only a switch disowns).  Without an outage that ends there is no claim at all.

* `MapView`: what is fetched arrives (`TilesArrive`).  The board re-renders and gets overviews
  without end, every second and every ten, so some of them find the map idle: strong
  fairness, as the map is busy and idle in turns.  `MapCatchesUp` speaks of behaviours in
  which the overview shown stays the same.
* `AssetRegistry`: the timer fires; a request is answered when the API is up and fails
  when it is down.  Both liveness properties assume an API that stays up at last.  No button
  is pressed by fairness.

## 4. What is proved

All theorems hold for every value of the constants; they assume only the named
`ASSUME`s on them (types of the constant functions, bounds in Nat, `NoEvent` no event).

* `IntegrationMessages_proof`: the invariant `IInv` adds to the properties who owns
  a row (`Ownership`: only the request that inserted it stands beyond "begin") and in
  which order row, effect and answer come (`EffectOrder`).  Neither property is inductive without: that no
  second effect happens follows from the row's owner alone reaching "work".
  `ToldStatusFinal` needs a second invariant: that a settled row's handler
  has finished.  `NoOpenMessageLeft` is the safety half of `EveryMessageSettles`, for every
  set of faults: without crash and database faults an answer always follows the
  settlement.  `Implementation` is the refinement of MessageLedger: each handler
  step maps to `Open`, `Perform`, `Succeed`, `Fail` or a stutter.
* `Devices_proof`, onboarding: `Reliance` says what each await of an activation has
  established, from facts that are never undone (`Monotone`: revoked stays revoked,
  released stays released); `Fresh` that ids being inserted are not in the table yet.
  `OnlyTheRaceRevives` is an action property from the same invariant: its step that sets
  ACTIVE has read a startable status, so a device that is stopped by then was stopped
  between the two awaits.
* `Devices_proof`, reports: every step of a report is a stutter of onboarding
  (`ReportsImplementOnboarding`), whose invariant and theorems therefore hold here too.  To it comes `Backed`: what each check in the list
  has established about the token, the route and the assignment, in terms that later steps
  cannot undo (`Monotone`: a released assignment stays released; `RoutesLast`: a route is only
  ended), and that neither the route nor the assignment it found had ended when the report
  came (`gone`).  The three rules are not inductive without it: the insert reads nothing but
  the answers of the checks before it.
* `EventCommands_proof`: `Progress` says what a command has done at each await; that an
  answered issue has a queued recipient rests on it, as the insert lies two awaits back.
* `GcsAdapter_proof`: `Numbered` and `Held` order arrival numbers: what was posted is
  no newer than what the loop holds, which is older than what is pending; `Counted`
  keeps the number of arrivals within the bound.  That `pending` holds exactly while the
  item in hand is older than the newest arrival is the heart of `Implementation`, the
  refinement of Mailbox: an arrival maps to `Arrive`, the end of an exchange to `TakeNewest`
  or `Rest`, everything else to a stutter.  It is the safety half of `NewestIsTried`: the
  adapter never rests with something newer untried.
* `Dashboard_proof`: `Kept` says that the base of comparison is the fingerprint of what is
  on screen whenever that is the selected event; without it a switch back could hide a
  move.
* `ShootConsole_proof`: `Kept` says that at most one run of all is out, that running cards
  belong to loaded tests with a request that will settle them, and that an outcome
  "ok" stands for data the API accepted.
* `EventTimeline_proof`: `ActiveOfSelected` for the player's event, and the queries
  alone for the truth of its history: what a limit cuts off is older than the rest.

* `Board_proof` holds two components, which share no variable.
  *The map*: `DrawnOrWaiting` is inductive only because it also says that what waits for
  "load" is never out of date; otherwise "load" could take the map back.  `Pulsing` says that
  a frame is due only while the markers are lit and seen, without which a late frame paints
  over the end; `CameraThere` says that the camera has been to the event shown if that has a
  place, so that a step which takes the operator's view away must change the event.
  *The registry*: `CatalogInv` and `DialogInv` split the invariant at the two halves that
  most actions leave alone.  That an overview carries what was told rests on
  `PromisesKept` (a promise somebody refers to is not reused for another request),
  `CatalogFresh` (the catalog at hand has everything told so far, or has yet to be read:
  `Registered` drops it in the very step that tells) and, of the API, that what was told is
  registered.  That the list has what the dialog registered rests on `DialogInOrder`: one
  registration of this dialog at a time, because its button is disabled, whose reload was
  read after the insert.  `NoFormStuck` is the safety half of `FormSettles`: the form is
  disabled, and the list "loading", only while a request of this very dialog is under way.

Only model-checked are the liveness properties, since fairness and ENABLED are beyond the
prover: `EveryMessageSettles`, `NewestIsTried`, `BoardCatchesUp`, `ErrorClears`, `PlaybackEnds`,
`EmptyTestEnds`, `OrderRestored`, `MapCatchesUp`, `BoardRecovers` and `FormSettles`.  Every
invariant and action property that a passing run checks is the statement of a theorem.

## 5. Where code and documents disagree

One disagreement is a run (`findings`): the first activation writes no audit row.  Others
were met while modelling; where the property that holds has an exception, this is it:

* An activation that read an asset before it was reported lost writes ACTIVE over LOST
  (`device-onboarding.ts:222-240` against `docs/project-scope-and-api-boundaries.md:63`).
  `RevivedOnlyByRace` says that nothing else does.
* Issuing an alert is documented as one transaction (`docs/api-docs/resource-mapping.md:30`);
  its status is written before the deliveries (`resources.ts:235` and `:246`), so a failure between
  leaves an issued alert nobody was queued for.  `IssuedIsTold` says that the operator is then
  not answered that it was issued.
* The fixed order of layers (`LivePositionMap.tsx:480`) is broken for a while when a domain layer
  is drawn first and the markers' drawing is deferred (`OrderRestored`).
* Domain layers that the overview of the new event does not carry are never removed: those
  of the event left stay on the map (UX-COM-002 of
  `docs/requirements/통합시스템_UIUX_기능요구사항.csv`).  `DrawnOrWaiting` and `MapCatchesUp` speak of
  the layers of the overview shown.
* What an effect defers after the event "load" has fired is drawn only when the effect runs again:
  a base map chosen while tiles load is not drawn until it is chosen again, and during an outage,
  when no overview comes, domain layers stay old.
* Hiding a group of resources removes the topology links of the database that touch it, and
  guessed ones take their place (`LivePositionMap.tsx:156-170`); the picture of a label is made once
  per key, so a changed text keeps its old picture (`:412-418`).
* UI-012 (`functional-test-cases.md:99`) has a registered asset appear in the list.  The
  load begun with the dialog may arrive after the one begun by the registration and replace it.
  A failed reload replaces the message of success by an error, and a lost answer is an
  error for an asset that is registered; trying again is refused as a duplicate and drops no catalog.
* An asset registered by another client has no master data on this board until this very board
  registers one (`forest-api.ts:106`), and the catalog ends after 200 rows.

* When the result row is stored and the status update after it fails, the client is
  answered 400 and the log says REJECTED (`routes/integrations.ts:141`); the interface
  document gives 400 for a contract violation or a failed store
  (`forest-back-demo/docs/integrations.openapi.yaml:223`).
* Markers are to light up when the newest observation time or the fingerprint changes
  (`forest-front-demo/README.md:27`).  The code compares the time with the newest of all
  answers since the switch, late ones of the event just left included
  (`UnifiedDisasterDashboard.tsx:602`): a newer time below that lights up nothing unless
  a marker moved.  `MoveNoticed` claims the fingerprint half alone.
* A batch of personnel positions is refused whole, each time: the items are put in
  snake case before a validator that reads camel case (`resources.ts:60-65`,
  `rtk-gnss.ts:27`), so only batches of asset statuses are modelled.
* `runSelected` disables its button and the render two lines on enables it again
  (`public/app.js:140-142`): the same tests may run twice at once.
* The page gives up after 5.5 s, while a run of all may take 5 s for the tests and as
  long for the fleet pulse: tests the API accepted are then shown as failed.
* A duplicate of a rejected message is answered 200 with `accepted: true`
  (`routes/integrations.ts:129`); the interface document (`ndps-northbound-icd.md:139`)
  has a duplicate answered with the result of its first processing.
* The adapter's store keeps the last arrival, not the newest observation
  (`telemetry-store.ts:8` against `test/app-and-store.test.ts:18`).
* A failed first load of an API that has no events leaves the error on the standby
  screen (`UnifiedDisasterDashboard.tsx:646` against `functional-test-cases.md:89`).
* The documented alert draft has no status (`openapi.yaml:912`) and is refused by the
  table's NOT NULL (`forest_disaster_schema.sql:275`): `CreateAlert` models that.
* The status change of an event writes no audit row (`events.ts:38`).
* A failed timeline refresh drops the last good timeline (`LatestFails`;
  `functional-test-cases.md:77` expects the last good data to stay).
* `/events/:eventId/personnel-device-assignments` and `/reporting-routes` are
  registered after the generic `/:eventId/:resource` (`app.ts:56` and `:60`), which
  answers 404 for names it does not know.  DeviceOnboarding and DeviceReports take
  the assignment and route handlers as reached, as the documents do: what they show
  is about the handlers, not about the paths.
* Keyset pages compare the order column alone, so rows that tie with a page's last
  row are skipped (`services/database.ts:55`; `docs/api-docs/README.md:46` has the UUID as
  a second key).

## 6. What is not modelled

Contract validators and the capability catalog are pure checks of one message.
Token verification is the library's.  The other dialogs and the side panels of the board
(`DomainFeatureModals.tsx`, `OperationsPanel.tsx`, `HardwareServerPanel.tsx`) draw what
the overview holds or what a poll of their own brought.  Of the map, the guesses of
topology links, clicks and how anything is painted are left out; playback on the map too.  The overview's
14 requests are one read, so skew between them is not seen.  Battery, attitude and
the choice of the event are left out of the adapter, shutdown too.  Payloads, filters
and the fleet pulse are left out of the console; reporting roles, and the status tables
of the RTK and TVWS gateways, out of the reports; the simulator's raw ingest has no
checks to model.  Views and
derived tables of the schema, configuration, logging and the scripts that write
documents carry no state of interest.

Three hazards have no property.  The adapter's store keeps what arrived last and its
loop keeps one drone's slot for all (`telemetry-store.ts:8`, `index.ts:18`): the code makes no
attempt to order or to separate, so there is only the opposite of a property to state.  A
recipient reached over two channels can never acknowledge (`resources.ts:266`), whatever the
interleaving.

## 7. Plan

The order was: the message log first, since everything that enters passes it; then
who may report; then the adapter and the board at the two ends; then commands and
the simulator's console; then the proof about reports, the map and the
asset registry, and the proofs about these; the adapter's mailbox last.
What is left:

1. **Pagination** (pure): keyset pages against the sorted table over all small tables.
2. **Routing** (pure): the first registered route that matches, for every documented
   path.
3. A composition of IntegrationMessages and DeviceReports: a report that is refused
   for its authority is a settled message.
4. Whole batches: the answer of `:batch` names exactly the stored items, and what a
   retry of a half-stored batch adds.
5. The safety halves of `EmptyTestEnds`, `PlaybackEnds` and `BoardCatchesUp`, as invariants
   with proofs, as there are of `EveryMessageSettles`, `NewestIsTried` and `FormSettles`.
