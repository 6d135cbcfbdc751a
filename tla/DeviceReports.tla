---------------------------- MODULE DeviceReports ----------------------------
(***************************************************************************)
(* Reports of activated devices: positions and asset statuses through      *)
(* POST /integrations/:capability/results (routes/integrations.ts and      *)
(* shared/result-store.ts), and items of a batch of asset statuses         *)
(* (routes/resources.ts), each with the checks of                          *)
(* services/asset-identity.ts, while DeviceOnboarding goes on around them. *)
(* Proxy reports need a route (POST /events/:eventId/reporting-routes).    *)
(* The message log of the same requests is IntegrationMessages.            *)
(***************************************************************************)
EXTENDS DeviceOnboarding, Naturals

CONSTANTS
    Reporter,    \* report requests in flight at once
    Route,       \* ids of reporting_route rows for the position capability
    RouteBody,   \* [Route -> [event, reporter, source]]
    MaxRows      \* bound: reports begin while fewer are stored

ASSUME RouteAssumption ==
    /\ RouteBody \in [Route -> {b \in [event : Event, reporter : Asset, source : Asset] :
                                 b.reporter # b.source}]
    /\ Route \cap Assignment = {} /\ NoOne \notin Route
    /\ MaxRows \in Nat

VARIABLES
    route,       \* NoOne, "active" (valid now) or "ended" (valid_to has passed)
    report,      \* what each report request is doing
    stored       \* rows of core.personnel_position and core.asset_status

reportVars == <<route, report, stored>>
allVars == <<vars, reportVars>>

\* A service token carries no assetId; with authentication off there is none.
NoClaims == [asset |-> NoOne, event |-> NoOne, person |-> NoOne]

Kind == {"position", "status", "batch"}

\* The awaits of one report, in the order of the code.
Checks ==
    [position     |-> <<"reporter", "authority", "source", "route", "storeReporter",
                        "storeSource", "assignment", "insert">>,
     status       |-> <<"reporter", "authority", "source", "route", "storeReporter",
                        "storeSource", "insert">>,
     \* of one item; the items of a batch go on side by side and alone
     batch        |-> <<"storeSource", "authority", "source", "route", "insert">>]

\* A status names no person.  via and asg are the rows relied on, gone those
\* that were already dead when the report arrived (history variables).
Claims == Token \cup {NoClaims}
Envelope == [event : Event, person : Person \cup {NoOne}, source : Asset,
             reporter : Asset \cup {NoOne}]
NoReport == [at |-> 0]
Report == [at : 1..8, kind : Kind, claims : Claims, env : Envelope,
           via : Route \cup {NoOne}, asg : Assignment \cup {NoOne},
           gone : SUBSET (Route \cup Assignment)]

ReportsTypeOK ==
    /\ route \in [Route -> {NoOne, "active", "ended"}]
    /\ report \in [Reporter -> Report \cup {NoReport}]
    /\ stored \subseteq [kind : Kind, claims : Claims, env : Envelope]

ReportsInit ==
    /\ Init
    /\ route = [u \in Route |-> NoOne]
    /\ report = [r \in Reporter |-> NoReport]
    /\ stored = {}

------------------------------------------------------------------------------
\* Who reports: reportedByAssetId when named, else the device itself, which a
\* result names as its source and a batch takes from the token.
EffectiveOf(kind, claims, env) ==
    IF env.reporter # NoOne THEN env.reporter
    ELSE IF kind = "batch" THEN claims.asset ELSE env.source
Effective(rep) == EffectiveOf(rep.kind, rep.claims, rep.env)

\* Whether the reporter's authority is checked at all: a result only under a
\* device token, a batch also for the reporter a service names.
Vouched(rep) ==
    IF rep.kind = "batch" THEN Effective(rep) # NoOne ELSE rep.claims # NoClaims

\* The rows of a route are written once both assets were found operational;
\* the two reads and the insert are one step here, a route is never revoked.
CreateRoute(u) ==
    /\ route[u] = NoOne
    /\ Operational(RouteBody[u].reporter) /\ Operational(RouteBody[u].source)
    /\ route' = [route EXCEPT ![u] = "active"]
    /\ UNCHANGED <<vars, report, stored>>

EndRoute(u) ==
    /\ route[u] = "active"
    /\ route' = [route EXCEPT ![u] = "ended"]
    /\ UNCHANGED <<vars, report, stored>>

\* A device token must name the reporter and, when the device reports for
\* itself, the person.
OwnDevice(kind, claims, env) ==
    claims # NoClaims =>
        /\ EffectiveOf(kind, claims, env) = claims.asset
        /\ claims.asset = env.source /\ claims.person # NoOne
             => env.person \in {claims.person, NoOne}
ClaimsMatchAnyEvent(kind, claims, env) == OwnDevice(kind, claims, env)
ClaimsMatch(kind, claims, env) ==
    /\ OwnDevice(kind, claims, env)
    /\ claims # NoClaims => claims.event = env.event

GoneNow == {u \in Route : route[u] = "ended"}
               \cup {g \in Assignment : assignment[g] = "released"}

Begin(r, kind, claims, env) ==
    /\ report[r] = NoReport
    /\ Cardinality(stored) < MaxRows
    /\ (env.person # NoOne) = (kind = "position")
    /\ ClaimsMatch(kind, claims, env)
    /\ report' = [report EXCEPT ![r] =
           [at |-> 1, kind |-> kind, claims |-> claims, env |-> env,
            via |-> NoOne, asg |-> NoOne, gone |-> GoneNow]]
    /\ UNCHANGED <<vars, route, stored>>

BeginReport(r, claims, env) ==
    \E kind \in {"position", "status"} : Begin(r, kind, claims, env)

\* One item of POST /events/:eventId/asset-statuses:batch.  A batch of positions
\* is refused whole before its first await (see the README).
BeginItem(r, claims, env) == Begin(r, "batch", claims, env)

Checking(r, check) ==
    /\ report[r] # NoReport
    /\ LET checks == Checks[report[r].kind]
       IN  report[r].at \in DOMAIN checks /\ checks[report[r].at] = check
Pass(r) == report' = [report EXCEPT ![r].at = @ + 1]

\* assertRegisteredAssetId, of the reporter when the envelope names one, of
\* reporter and source when authority is checked, and of what is stored.
Registered(r) ==
    LET rep == report[r]
    IN  /\ /\ Checking(r, "reporter") \/ Checking(r, "storeReporter")
           /\ rep.env.reporter # NoOne
           => Operational(rep.env.reporter)
        /\ Checking(r, "authority") /\ Vouched(rep) => Operational(Effective(rep))
        /\ \/ Checking(r, "source") /\ Vouched(rep)
           \/ Checking(r, "storeSource")
           => Operational(rep.env.source)

CheckAsset(r) ==
    /\ \E check \in {"reporter", "authority", "source", "storeReporter", "storeSource"} :
          Checking(r, check)
    /\ Registered(r)
    /\ Pass(r)
    /\ UNCHANGED <<vars, route, stored>>

\* assertReportingAuthority: who reports for another needs a route.
ProxyRoutes(r) ==
    {u \in Route : /\ route[u] = "active"
                   /\ RouteBody[u] = [event |-> report[r].env.event,
                                      reporter |-> Effective(report[r]),
                                      source |-> report[r].env.source]}
CheckRoute(r) ==
    /\ Checking(r, "route")
    /\ IF Vouched(report[r]) /\ Effective(report[r]) # report[r].env.source
       THEN \E u \in ProxyRoutes(r) :
              report' = [report EXCEPT ![r].at = @ + 1, ![r].via = u]
       ELSE Pass(r)
    /\ UNCHANGED <<vars, route, stored>>

\* assertActivePersonnelAssignment
PersonAssignmentsEvenReleased(r) ==
    {g \in Assignment : /\ assignment[g] # NoOne
                        /\ AssignmentBody[g] = [event |-> report[r].env.event,
                                                person |-> report[r].env.person,
                                                asset |-> report[r].env.source]}
PersonAssignments(r) ==
    {g \in Assignment : /\ assignment[g] = "active"
                        /\ AssignmentBody[g] = [event |-> report[r].env.event,
                                                person |-> report[r].env.person,
                                                asset |-> report[r].env.source]}
CheckAssignmentAnyPerson(r) ==
    /\ Checking(r, "assignment")
    /\ \E g \in Assignment :
         /\ assignment[g] = "active"
         /\ AssignmentBody[g].event = report[r].env.event
         /\ AssignmentBody[g].asset = report[r].env.source
         /\ report' = [report EXCEPT ![r].at = @ + 1, ![r].asg = g]
    /\ UNCHANGED <<vars, route, stored>>
CheckAssignment(r) ==
    /\ Checking(r, "assignment")
    /\ \E g \in PersonAssignments(r) :
         report' = [report EXCEPT ![r].at = @ + 1, ![r].asg = g]
    /\ UNCHANGED <<vars, route, stored>>

RowOf(rep) == [kind |-> rep.kind, claims |-> rep.claims, env |-> rep.env]
InsertRow(r) ==
    /\ Checking(r, "insert")
    /\ stored' = stored \cup {RowOf(report[r])}
    /\ report' = [report EXCEPT ![r] = NoReport]
    /\ UNCHANGED <<vars, route>>

\* A check throws, a statement fails or the process stops.
RejectReport(r) ==
    /\ report[r] # NoReport
    /\ report' = [report EXCEPT ![r] = NoReport]
    /\ UNCHANGED <<vars, route, stored>>

ReportStep ==
    \/ \E u \in Route : CreateRoute(u) \/ EndRoute(u)
    \/ \E r \in Reporter :
         \/ \E claims \in tokens \cup {NoClaims}, env \in Envelope :
              BeginReport(r, claims, env) \/ BeginItem(r, claims, env)
         \/ CheckAsset(r) \/ CheckRoute(r) \/ CheckAssignment(r)
         \/ InsertRow(r) \/ RejectReport(r)

ReportsNext == ReportStep \/ (Next /\ UNCHANGED reportVars)
ReportsSpec == ReportsInit /\ [][ReportsNext]_allVars

------------------------------------------------------------------------------
(* Properties                                                               *)

\* Every stored position belongs to a person who was assigned, in that event,
\* the very device it came from: no position without steps 1-4 of onboarding.
PositionHasAssignment ==
    \A row \in stored :
        row.kind = "position" =>
            \E g \in Assignment :
                /\ assignment[g] # NoOne
                /\ AssignmentBody[g] = [event |-> row.env.event, person |-> row.env.person,
                                        asset |-> row.env.source]

\* What authority lets through.  A device token: only its own event and device,
\* and its own person when it reports for itself.  Anyone whose authority is
\* checked: another device only over a route of that event.
TokenConfined ==
    \A row \in stored :
        /\ row.claims # NoClaims =>
             /\ row.env.event = row.claims.event
             /\ Effective(row) = row.claims.asset
             /\ row.env.source = row.claims.asset
                  => NoOne \in {row.claims.person, row.env.person}
                       \/ row.claims.person = row.env.person
        /\ Vouched(row) /\ Effective(row) # row.env.source =>
             \E u \in Route : /\ route[u] # NoOne
                              /\ RouteBody[u] = [event |-> row.env.event,
                                                 reporter |-> Effective(row),
                                                 source |-> row.env.source]

\* A report that is about to be stored never relies on an assignment released,
\* or a route ended, before it arrived, however long the token still lives.
NothingStale ==
    \A r \in Reporter :
        Checking(r, "insert") => report[r].asg \notin report[r].gone
                                   /\ report[r].via \notin report[r].gone
==============================================================================
