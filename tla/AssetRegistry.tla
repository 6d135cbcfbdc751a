---------------------------- MODULE AssetRegistry ----------------------------
(***************************************************************************)
(* The dialog that registers assets (AssetRegistryModal.tsx), the catalog  *)
(* of assets the board keeps as one promise (forest-api.ts) and the two    *)
(* handlers of assets.ts they call.  Every overview waits for the promise  *)
(* to give its devices their master data; only a registration made here    *)
(* drops it.  The dialog has a list of its own.                            *)
(*                                                                         *)
(* A request is asked, read or carried out by the API, and answered; it    *)
(* fails when the API cannot be reached.  The state of a dialog that was   *)
(* closed is gone, what it has asked for goes on.  The API holds fewer     *)
(* than the 200 assets it lists.                                           *)
(***************************************************************************)
CONSTANTS
    Asset,      \* what there is to register; each has its own code and serial
    Fetch,      \* bound: catalog requests in use
    Poll,       \* bound: polled overviews in flight
    Called,     \* bound: overviews of onRegistered in flight
    Job         \* bound: registrations in flight

NoFetch == "none"
Slot == Poll \cup Called

ASSUME SlotAssumption == NoFetch \notin Fetch /\ Poll \cap Called = {}

VARIABLES
    apiUp,
    registered, \* core.asset
    told,       \* the assets this board was told are registered
    catalog,    \* assetCatalogRequest
    fetch,      \* the promises: requests of the catalog
    overview,   \* overviews in flight, polled or begun by onRegistered
    shown,      \* the master data of the overview on the screen
    error,      \* the banner
    open,       \* assetRegistryOpen
    list, loading, saving, \* the dialog's assets, loading, saving
    success,    \* the message is one of success (not of an error, and not none)
    first,      \* the load begun when the dialog opened
    job,        \* submit
    here,       \* history: the assets this dialog was told are registered
    overlapped  \* history: one was while the first load was still under way

apiVars == <<apiUp, registered>>
catalogVars == <<catalog, fetch, overview, shown, error>>
dialogVars == <<open, list, loading, saving, success, first, here, overlapped>>
registryVars == <<apiVars, told, catalogVars, dialogVars, job>>

Load == [at : {"asked", "read"}, rows : SUBSET Asset]
NoLoad == [at |-> "none", rows |-> {}]
Asked == [at |-> "asked", rows |-> {}]
Promise == [at : {"asked", "read", "resolved", "rejected"}, rows : SUBSET Asset]
\* "must" is a history variable: what was told when the overview was begun.
Waiting == [of : Fetch, must : SUBSET Asset]
Free == [of |-> NoFetch, must |-> {}]
\* "mine": the dialog that submitted is still open.
Submitted == [at : {"asked", "inserted", "refused", "reload", "read"},
              asset : SUBSET Asset, rows : SUBSET Asset, mine : BOOLEAN]
Idle == [at |-> "idle", asset |-> {}, rows |-> {}, mine |-> FALSE]

RegistryTypeOK ==
    /\ {apiUp, error, open, loading, saving, success, overlapped} \subseteq BOOLEAN
    /\ {registered, told, shown, list, here} \subseteq SUBSET Asset
    /\ catalog \in Fetch \cup {NoFetch}
    /\ fetch \in [Fetch -> Promise \cup {NoLoad}]
    /\ overview \in [Slot -> Waiting \cup {Free}]
    /\ first \in Load \cup {NoLoad}
    /\ job \in [Job -> Submitted \cup {Idle}]
    /\ ~open => first = NoLoad /\ \A j \in Job : ~job[j].mine
    /\ \A f \in Fetch : fetch[f].at = "rejected" => catalog # f

\* The dialog is closed; a catalog is not fetched before the first overview.
RegistryInit ==
    /\ apiUp = TRUE
    /\ registered \in SUBSET Asset /\ told = {}
    /\ catalog = NoFetch /\ fetch = [f \in Fetch |-> NoLoad]
    /\ overview = [o \in Slot |-> Free]
    /\ shown = {} /\ error = FALSE
    /\ open = FALSE /\ list = {} /\ loading = FALSE /\ saving = FALSE
    /\ success = FALSE /\ first = NoLoad /\ here = {} /\ overlapped = FALSE
    /\ job = [j \in Job |-> Idle]

------------------------------------------------------------------------------
(* The API and whoever else uses it.                                        *)

GoDown == apiUp /\ apiUp' = FALSE /\ UNCHANGED <<registered, told, catalogVars, dialogVars, job>>
ComeUp == ~apiUp /\ apiUp' = TRUE /\ UNCHANGED <<registered, told, catalogVars, dialogVars, job>>

RegisterElsewhere(a) ==
    /\ registered' = registered \cup {a}
    /\ UNCHANGED <<apiUp, told, catalogVars, dialogVars, job>>

\* GET /assets, for the catalog and for the list of the dialog.
CatalogRead(f) ==
    /\ apiUp /\ fetch[f].at = "asked"
    /\ fetch' = [fetch EXCEPT ![f] = [at |-> "read", rows |-> registered]]
    /\ UNCHANGED <<apiVars, told, catalog, overview, shown, error, dialogVars, job>>
FirstRead ==
    /\ apiUp /\ first.at = "asked"
    /\ first' = [at |-> "read", rows |-> registered]
    /\ UNCHANGED <<apiVars, told, catalogVars, open, list, loading, saving, success, here, overlapped, job>>
ReloadRead(j) ==
    /\ apiUp /\ job[j].at = "reload"
    /\ job' = [job EXCEPT ![j].at = "read", ![j].rows = registered]
    /\ UNCHANGED <<apiVars, told, catalogVars, dialogVars>>

\* POST /assets: the code and the serial number are unique, a form may be
\* refused, and an audit that cannot be written fails the request after the
\* asset was inserted.
Insert(j) ==
    /\ apiUp /\ job[j].at = "asked"
    /\ registered' \in {registered, registered \cup job[j].asset}
    /\ \E at \in {"inserted", "refused"} :
         /\ at = "inserted" => job[j].asset \cap registered = {} /\ registered' # registered
         /\ job' = [job EXCEPT ![j].at = at]
    /\ UNCHANGED <<apiUp, told, catalogVars, dialogVars>>

------------------------------------------------------------------------------
(* The catalog and the overviews (forest-api.ts).                           *)

\* loadAssetCatalog: the promise at hand or a new one.
BeginOverview(o, known) ==
    /\ overview[o] = Free
    /\ \E f \in Fetch :
         /\ overview' = [overview EXCEPT ![o] = [of |-> f, must |-> known]]
         /\ IF catalog # NoFetch THEN f = catalog /\ UNCHANGED <<catalog, fetch>>
            ELSE /\ fetch[f] = NoLoad
                 /\ catalog' = f /\ fetch' = [fetch EXCEPT ![f] = Asked]

\* A settled promise that nothing refers to any more is garbage.
Collect(promises, cached, waiting) ==
    [f \in Fetch |-> IF \/ promises[f].at \in {"asked", "read"}
                        \/ cached = f \/ \E o \in Slot : waiting[o].of = f
                     THEN promises[f] ELSE NoLoad]

\* The timer of the board, each second.
Tick(o) ==
    /\ BeginOverview(o, told)
    /\ UNCHANGED <<apiVars, told, shown, error, dialogVars, job>>

Settle(f, at) ==
    fetch' = Collect([fetch EXCEPT ![f].at = at], catalog', overview)
Resolve(f) ==
    /\ fetch[f].at = "read"
    /\ UNCHANGED catalog /\ Settle(f, "resolved")
    /\ UNCHANGED <<apiVars, told, overview, shown, error, dialogVars, job>>
RejectKept(f) ==                                \* mutant: no catch
    /\ ~apiUp /\ fetch[f].at \in {"asked", "read"}
    /\ UNCHANGED catalog /\ Settle(f, "rejected")
    /\ UNCHANGED <<apiVars, told, overview, shown, error, dialogVars, job>>
\* The promise that failed takes with it the one that may have replaced it.
Reject(f) ==
    /\ ~apiUp /\ fetch[f].at \in {"asked", "read"}
    /\ catalog' = NoFetch /\ Settle(f, "rejected")
    /\ UNCHANGED <<apiVars, told, overview, shown, error, dialogVars, job>>

\* The other requests of an overview are answered too, or one fails.  The
\* banner belongs to the polls; the call of onRegistered is not awaited.
Leave(o) ==
    /\ overview' = [overview EXCEPT ![o] = Free]
    /\ fetch' = Collect(fetch, catalog, overview')
OverviewArrives(o) ==
    /\ overview[o] # Free /\ fetch[overview[o].of].at = "resolved"
    /\ shown' = fetch[overview[o].of].rows
    /\ error' = (error /\ o \notin Poll)
    /\ Leave(o)
    /\ UNCHANGED <<apiVars, told, catalog, dialogVars, job>>
OverviewFails(o) ==
    /\ overview[o] # Free
    /\ ~apiUp \/ fetch[overview[o].of].at = "rejected"
    /\ error' = (error \/ o \in Poll)
    /\ Leave(o)
    /\ UNCHANGED <<apiVars, told, catalog, shown, dialogVars, job>>

------------------------------------------------------------------------------
(* The dialog.                                                              *)

Open ==
    /\ ~open /\ open' = TRUE
    /\ list' = {} /\ loading' = TRUE /\ saving' = FALSE /\ success' = FALSE
    /\ first' = Asked /\ here' = {} /\ overlapped' = FALSE
    /\ UNCHANGED <<apiVars, told, catalogVars, job>>
\* Escape, the backdrop and the button close it whatever it is doing.
Close ==
    /\ open /\ open' = FALSE
    /\ list' = {} /\ loading' = FALSE /\ saving' = FALSE /\ success' = FALSE
    /\ first' = NoLoad /\ here' = {} /\ overlapped' = FALSE
    /\ job' = [j \in Job |-> [job[j] EXCEPT !.mine = FALSE]]
    /\ UNCHANGED <<apiVars, told, catalogVars>>
\* The form is reset, or submitted although it lacks something.
ClearForm ==
    /\ open /\ success' = FALSE
    /\ UNCHANGED <<apiVars, told, catalogVars, open, list, loading, saving, first, here, overlapped, job>>

\* loadAssets of the effect that runs when the dialog opens.
FirstArrives ==
    /\ first.at = "read"
    /\ list' = first.rows /\ loading' = FALSE /\ first' = NoLoad
    /\ UNCHANGED <<apiVars, told, catalogVars, open, saving, success, here, overlapped, job>>
FirstFails ==
    /\ ~apiUp /\ first # NoLoad
    /\ success' = FALSE /\ loading' = FALSE /\ first' = NoLoad
    /\ UNCHANGED <<apiVars, told, catalogVars, open, list, saving, here, overlapped, job>>

\* submit.  The button is disabled while a registration is saved.
MaySubmitAlways(j) == open                      \* mutant: the button stays enabled
MaySubmit(j) == open /\ ~saving
Submit(j, a) ==
    /\ MaySubmit(j) /\ job[j] = Idle
    /\ saving' = TRUE /\ success' = FALSE
    /\ job' = [job EXCEPT ![j] = [at |-> "asked", asset |-> {a}, rows |-> {}, mine |-> TRUE]]
    /\ UNCHANGED <<apiVars, told, catalogVars, open, list, loading, first, here, overlapped>>

\* Answered: the catalog is dropped and the list is loaded again.
InvalidatedNot(j) == catalog                    \* mutant: no invalidateAssetCatalog
Invalidated(j) == NoFetch
Registered(j) ==
    /\ job[j].at = "inserted"
    /\ told' = told \cup job[j].asset
    /\ catalog' = Invalidated(j) /\ fetch' = Collect(fetch, catalog', overview)
    /\ success' = (success \/ job[j].mine)
    /\ loading' = (loading \/ job[j].mine)
    /\ here' = IF job[j].mine THEN here \cup job[j].asset ELSE here
    /\ overlapped' = (overlapped \/ (job[j].mine /\ first # NoLoad))
    /\ job' = [job EXCEPT ![j].at = "reload", ![j].asset = {}]
    /\ UNCHANGED <<apiVars, overview, shown, error, open, list, saving, first>>
\* An error, or no answer: what was inserted may be in the table all the same.
NotSavedStuck(j) == saving                      \* mutant: no finally
NotSaved(j) == saving /\ ~job[j].mine
RegisterFails(j) ==
    /\ job[j].at = "refused" \/ (~apiUp /\ job[j].at \in {"asked", "inserted"})
    /\ success' = (success /\ ~job[j].mine)
    /\ saving' = NotSaved(j)
    /\ job' = [job EXCEPT ![j] = Idle]
    /\ UNCHANGED <<apiVars, told, catalogVars, open, list, loading, first, here, overlapped>>

\* The list came, or not; either way the board refreshes its overview.
ReloadEnds(j, rows, said) ==
    /\ list' = IF job[j].mine THEN rows ELSE list
    /\ success' = IF job[j].mine THEN said ELSE success
    /\ loading' = (loading /\ ~job[j].mine) /\ saving' = (saving /\ ~job[j].mine)
    /\ \E o \in Called : BeginOverview(o, told)
    /\ job' = [job EXCEPT ![j] = Idle]
    /\ UNCHANGED <<apiVars, told, shown, error, open, first, here, overlapped>>
ReloadArrives(j) == job[j].at = "read" /\ ReloadEnds(j, job[j].rows, success)
ReloadFails(j) == ~apiUp /\ job[j].at \in {"reload", "read"} /\ ReloadEnds(j, list, FALSE)

RegistryNext ==
    \/ GoDown \/ ComeUp \/ \E a \in Asset : RegisterElsewhere(a)
    \/ \E f \in Fetch : CatalogRead(f) \/ Resolve(f) \/ Reject(f)
    \/ \E o \in Poll : Tick(o)
    \/ \E o \in Slot : OverviewArrives(o) \/ OverviewFails(o)
    \/ Open \/ Close \/ ClearForm \/ FirstRead \/ FirstArrives \/ FirstFails
    \/ \E j \in Job, a \in Asset : Submit(j, a)
    \/ \E j \in Job : \/ Insert(j) \/ Registered(j) \/ RegisterFails(j)
                      \/ ReloadRead(j) \/ ReloadArrives(j) \/ ReloadFails(j)

RegistrySpec == RegistryInit /\ [][RegistryNext]_registryVars

\* The timer fires; a request is answered by an API that is up, and fails when
\* it is down.
RegistryFairness ==
    /\ \A o \in Poll : WF_registryVars(Tick(o))
    /\ \A o \in Slot : WF_registryVars(OverviewArrives(o) \/ OverviewFails(o))
    /\ \A f \in Fetch : WF_registryVars(CatalogRead(f)) /\ WF_registryVars(Resolve(f) \/ Reject(f))
    /\ WF_registryVars(FirstRead) /\ WF_registryVars(FirstArrives \/ FirstFails)
    /\ \A j \in Job :
         /\ WF_registryVars(Insert(j)) /\ WF_registryVars(ReloadRead(j))
         /\ WF_registryVars(Registered(j) \/ RegisterFails(j))
         /\ WF_registryVars(ReloadArrives(j) \/ ReloadFails(j))

RegistryFairSpec == RegistrySpec /\ RegistryFairness

------------------------------------------------------------------------------
(* Properties                                                               *)

\* Overviews share promises, are begun while one is dropped and arrive late;
\* yet one that was begun after the operator was told of a registration
\* carries that asset's master data (forest-api.ts:106).
RegisteredIsCarried ==
    \A o \in Slot : LET f == overview[o].of IN
        overview[o] # Free /\ fetch[f].at \in {"read", "resolved"}
            => overview[o].must \subseteq fetch[f].rows

\* Once the API stays up the banner goes and the board shows the master data
\* of everything it was told is registered, whatever failed before.
BoardRecovers == <>[]apiUp => <>[](~error /\ told \subseteq shown)

\* UI-012 of functional-test-cases.md: when a registration has succeeded the
\* list shows what this dialog registered - as far as it holds: not when it
\* overlapped with the load the dialog was opened with.
RegisteredIsListed ==
    success /\ ~saving /\ ~overlapped => here \subseteq list

\* No form stays disabled and no list "loading" once the API stays up.
FormSettles == <>[]apiUp => []<>(~saving /\ ~loading)
==============================================================================
