--------------------------- MODULE DeviceOnboarding ---------------------------
(***************************************************************************)
(* The life of a field device in forest-back-demo: registration and status *)
(* (routes/assets.ts), credentials, assignments and activation             *)
(* (routes/device-onboarding.ts), the audit trail of the status            *)
(* (services/audit.ts) and the unique indexes on active assignments        *)
(* (forest_disaster_schema.sql).                                           *)
(*                                                                         *)
(* A Handler is one slot of the Node process: it takes any request, runs   *)
(* it await by await and is free again.  Between two of its statements the *)
(* other slots run, so what it has read may be stale when it writes.       *)
(***************************************************************************)
EXTENDS FiniteSets

CONSTANTS
    Asset,
    Terminal,         \* the assets a person may be given
    Gateway,          \* the assets that may report for others
    Person, Event,
    Credential,       \* ids of device_credential rows
    CredentialAsset,  \* [Credential -> Asset]: the asset each is issued to
    Assignment,       \* ids of personnel_device_assignment rows
    AssignmentBody,   \* [Assignment -> [event, person, asset]]
    Handler,          \* requests in flight at once
    AdminStatus,      \* the statuses administrators set
    Faults            \* {"abort"}: a handler may stop at any await; or {}

AssetStatus == {"REGISTERED", "ACTIVE", "SUSPENDED", "LOST", "RETIRED"}
Stopped == {"SUSPENDED", "LOST", "RETIRED"}
Absent == "ABSENT"

NoOne == "none"   \* no person, no id

Triple == [event : Event, person : Person, asset : Asset]

ASSUME OnboardingAssumption ==
    /\ Terminal \subseteq Asset /\ Gateway \subseteq Asset
    /\ CredentialAsset \in [Credential -> Asset]
    /\ AssignmentBody \in [Assignment -> Triple]
    /\ Credential \cap Assignment = {}
    /\ NoOne \notin Person \cup Credential \cup Assignment
    /\ AdminStatus \subseteq AssetStatus
    /\ Faults \subseteq {"abort"}

VARIABLES
    status,      \* asset.status, Absent before registration
    trail,       \* the status the newest audit_log row of the asset shows
    credential,  \* device_credential.status, NoOne before it is issued
    expired,     \* credentials whose expires_at has passed
    assignment,  \* NoOne, "active", or "released" (released_at is set)
    deployed,    \* event_resource rows: <<event, asset>>, never released
    tokens,      \* unexpired device and gateway tokens
    job          \* what each handler is doing

vars == <<status, trail, credential, expired, assignment, deployed, tokens, job>>

Device == {"device", "gateway"}     \* the two activations
Token == [asset : Asset, event : Event, person : Person \cup {NoOne}]

\* gone is a history variable: the credentials that were revoked or expired
\* and the assignments that were released when the request arrived.
Idle == [op |-> NoOne, at |-> "idle"]
Activation ==
    [op : Device, cred : Credential, event : Event, person : Person \cup {NoOne},
     at : {"credential", "asset", "assignment", "touch", "promote"},
     lapsed : BOOLEAN, seen : AssetStatus, asg : Assignment \cup {NoOne},
     gone : SUBSET (Credential \cup Assignment)]
Administration ==
    [op : {"register", "status"}, at : {"audit"}, asset : Asset, seen : AssetStatus]
    \cup [op : {"issue", "revoke", "assign", "release"}, at : {"audit"}]
    \cup [op : {"issue"}, at : {"insert"}, cred : Credential]
    \cup [op : {"assign"}, at : {"insert"}, asg : Assignment]
Job == Activation \cup Administration \cup {Idle}

TypeOK ==
    /\ status \in [Asset -> AssetStatus \cup {Absent}]
    /\ trail \in [Asset -> AssetStatus \cup {Absent}]
    /\ credential \in [Credential -> {NoOne, "ACTIVE", "REVOKED"}]
    /\ expired \subseteq Credential
    /\ assignment \in [Assignment -> {NoOne, "active", "released"}]
    /\ deployed \subseteq Event \X Asset
    /\ tokens \subseteq Token
    /\ job \in [Handler -> Job]

Init ==
    /\ status = [a \in Asset |-> Absent]
    /\ trail = [a \in Asset |-> Absent]
    /\ credential = [c \in Credential |-> NoOne]
    /\ expired = {}
    /\ assignment = [g \in Assignment |-> NoOne]
    /\ deployed = {}
    /\ tokens = {}
    /\ job = [h \in Handler |-> Idle]

------------------------------------------------------------------------------
Free(h) == job[h] = Idle
At(h, op, step) == job[h].op = op /\ job[h].at = step
Become(h, j) == job' = [job EXCEPT ![h] = j]
Finish(h) == Become(h, Idle)
Continue(h, step) == Become(h, [job[h] EXCEPT !.at = step])
Audit(h, op) == Become(h, [op |-> op, at |-> "audit"])
AuditStatus(h, op, a, s) ==
    Become(h, [op |-> op, at |-> "audit", asset |-> a, seen |-> s])

Operational(a) == status[a] \notin Stopped \cup {Absent}

------------------------------------------------------------------------------
(* Administration: each request is its statements, then its audit row.      *)

RegisterAsset(h, a) ==
    /\ Free(h)
    /\ status[a] = Absent
    /\ status' = [status EXCEPT ![a] = "REGISTERED"]
    /\ AuditStatus(h, "register", a, "REGISTERED")
    /\ UNCHANGED <<trail, credential, expired, assignment, deployed, tokens>>

\* Any status may follow any other, RETIRED included.
ChangeStatus(h, a, s) ==
    /\ Free(h)
    /\ status[a] # Absent
    /\ status' = [status EXCEPT ![a] = s]
    /\ AuditStatus(h, "status", a, s)
    /\ UNCHANGED <<trail, credential, expired, assignment, deployed, tokens>>

\* randomUUID never gives one id to two requests.
IssueReadsAsset(h, c) ==
    /\ Free(h)
    /\ credential[c] = NoOne
    /\ \A k \in Handler : At(k, "issue", "insert") => job[k].cred # c
    /\ Operational(CredentialAsset[c])
    /\ Become(h, [op |-> "issue", at |-> "insert", cred |-> c])
    /\ UNCHANGED <<status, trail, credential, expired, assignment, deployed, tokens>>

IssueInserts(h) ==
    /\ At(h, "issue", "insert")
    /\ LET c == job[h].cred IN
         /\ credential' = [credential EXCEPT ![c] = "ACTIVE"]
         /\ Audit(h, "issue")
    /\ UNCHANGED <<status, trail, expired, assignment, deployed, tokens>>

RevokeCredential(h, c) ==
    /\ Free(h)
    /\ credential[c] # NoOne
    /\ credential' = [credential EXCEPT ![c] = "REVOKED"]
    /\ Audit(h, "revoke")
    /\ UNCHANGED <<status, trail, expired, assignment, deployed, tokens>>

AssignReadsAsset(h, g) ==
    /\ Free(h)
    /\ assignment[g] = NoOne
    /\ \A k \in Handler : At(k, "assign", "insert") => job[k].asg # g
    /\ Operational(AssignmentBody[g].asset)
    /\ AssignmentBody[g].asset \in Terminal
    /\ Become(h, [op |-> "assign", at |-> "insert", asg |-> g])
    /\ UNCHANGED <<status, trail, credential, expired, assignment, deployed, tokens>>

\* The partial unique indexes: within an event, one active assignment for a
\* person and one for an asset.
Fits(g) ==
    \A k \in Assignment :
        assignment[k] = "active" /\ AssignmentBody[k].event = AssignmentBody[g].event
        => /\ AssignmentBody[k].person # AssignmentBody[g].person
           /\ AssignmentBody[k].asset # AssignmentBody[g].asset

AssignInserts(h) ==
    /\ At(h, "assign", "insert")
    /\ LET g == job[h].asg IN
         \/ /\ Fits(g)
            /\ assignment' = [assignment EXCEPT ![g] = "active"]
            /\ Audit(h, "assign")
         \/ /\ ~Fits(g)       \* 409 ACTIVE_ASSIGNMENT_CONFLICT
            /\ Finish(h)
            /\ UNCHANGED assignment
    /\ UNCHANGED <<status, trail, credential, expired, deployed, tokens>>

ReleaseAssignment(h, g) ==
    /\ Free(h)
    /\ assignment[g] = "active"
    /\ assignment' = [assignment EXCEPT ![g] = "released"]
    /\ Audit(h, "release")
    /\ UNCHANGED <<status, trail, credential, expired, deployed, tokens>>

\* writeAuditLog: afterValue of a registration or a status change is the row.
WriteAudit(h) ==
    /\ job[h].at = "audit"
    /\ trail' = IF job[h].op \in {"register", "status"}
                THEN [trail EXCEPT ![job[h].asset] = job[h].seen] ELSE trail
    /\ Finish(h)
    /\ UNCHANGED <<status, credential, expired, assignment, deployed, tokens>>

\* POST /events/:eventId/resources
DeployAsset(e, a) ==
    /\ status[a] # Absent
    /\ deployed' = deployed \cup {<<e, a>>}
    /\ UNCHANGED <<status, trail, credential, expired, assignment, tokens, job>>

------------------------------------------------------------------------------
(* Activation of a personnel terminal and of a reporting gateway.           *)

Dead == {c \in Credential : credential[c] = "REVOKED"} \cup expired
            \cup {g \in Assignment : assignment[g] = "released"}

\* now is taken before the first read, so expiry is judged by it.
BeginActivation(h, op, c, e, p) ==
    /\ Free(h)
    /\ credential[c] # NoOne
    /\ (p = NoOne) <=> (op = "gateway")
    /\ Become(h, [op |-> op, at |-> "credential", cred |-> c, event |-> e,
                  person |-> p, lapsed |-> c \in expired, seen |-> "REGISTERED",
                  asg |-> NoOne, gone |-> Dead])
    /\ UNCHANGED <<status, trail, credential, expired, assignment, deployed, tokens>>

\* The mutant is the query without .eq("status", "ACTIVE").
ReadCredentialAnyStatus(h) ==
    /\ job[h].at = "credential"
    /\ IF job[h].lapsed THEN Finish(h) ELSE Continue(h, "asset")
    /\ UNCHANGED <<status, trail, credential, expired, assignment, deployed, tokens>>
ReadCredential(h) ==
    /\ job[h].at = "credential"
    /\ IF credential[job[h].cred] = "ACTIVE" /\ ~job[h].lapsed
       THEN Continue(h, "asset")
       ELSE Finish(h)         \* 401 DEVICE_AUTHENTICATION_FAILED
    /\ UNCHANGED <<status, trail, credential, expired, assignment, deployed, tokens>>

\* The mutant forgets the stopped states: whoever has a credential goes on.
ReadAssetAnyStatus(h) ==
    /\ job[h].at = "asset"
    /\ LET a == CredentialAsset[job[h].cred] IN
         IF status[a] # Absent /\ (job[h].op = "gateway" => a \in Gateway)
         THEN Become(h, [job[h] EXCEPT !.at = "assignment", !.seen = status[a]])
         ELSE Finish(h)
    /\ UNCHANGED <<status, trail, credential, expired, assignment, deployed, tokens>>
ReadAsset(h) ==
    /\ job[h].at = "asset"
    /\ LET a == CredentialAsset[job[h].cred] IN
         IF Operational(a) /\ (job[h].op = "gateway" => a \in Gateway)
         THEN Become(h, [job[h] EXCEPT !.at = "assignment", !.seen = status[a]])
         ELSE Finish(h)       \* 403
    /\ UNCHANGED <<status, trail, credential, expired, assignment, deployed, tokens>>

\* The active assignments of exactly this event, person and asset.
Wanted(h) == [event |-> job[h].event, person |-> job[h].person,
              asset |-> CredentialAsset[job[h].cred]]
Matching(h) ==
    {g \in Assignment : assignment[g] = "active" /\ AssignmentBody[g] = Wanted(h)}

ReadAssignmentIgnored(h) ==
    /\ At(h, "device", "assignment")
    /\ Continue(h, "touch")
    /\ UNCHANGED <<status, trail, credential, expired, assignment, deployed, tokens>>
ReadAssignment(h) ==
    /\ At(h, "device", "assignment")
    /\ \/ \E g \in Matching(h) :
            Become(h, [job[h] EXCEPT !.at = "touch", !.asg = g])
       \/ Matching(h) = {} /\ Finish(h)      \* 403 DEVICE_NOT_ASSIGNED
    /\ UNCHANGED <<status, trail, credential, expired, assignment, deployed, tokens>>

ReadDeployment(h) ==
    /\ At(h, "gateway", "assignment")
    /\ IF <<job[h].event, CredentialAsset[job[h].cred]>> \in deployed
       THEN Continue(h, "touch")
       ELSE Finish(h)         \* 403 GATEWAY_NOT_ASSIGNED
    /\ UNCHANGED <<status, trail, credential, expired, assignment, deployed, tokens>>

SignToken(h) ==
    /\ tokens' = tokens \cup {[asset |-> CredentialAsset[job[h].cred],
                               event |-> job[h].event, person |-> job[h].person]}
    /\ Finish(h)

\* last_authenticated_at is written; whether the asset must become ACTIVE is
\* decided by the status that was read two statements earlier.
TouchCredential(h) ==
    /\ job[h].at = "touch"
    /\ IF job[h].op = "device" /\ job[h].seen # "ACTIVE"
       THEN Continue(h, "promote") /\ UNCHANGED tokens
       ELSE SignToken(h)
    /\ UNCHANGED <<status, trail, credential, expired, assignment, deployed>>

PromoteAsset(h) ==
    /\ job[h].at = "promote"
    /\ status' = [status EXCEPT ![CredentialAsset[job[h].cred]] = "ACTIVE"]
    /\ SignToken(h)
    /\ UNCHANGED <<trail, credential, expired, assignment, deployed>>

------------------------------------------------------------------------------
(* Time and failures.                                                       *)

ExpireCredential(c) ==
    /\ credential[c] # NoOne
    /\ expired' = expired \cup {c}
    /\ UNCHANGED <<status, trail, credential, assignment, deployed, tokens, job>>

\* exp = iat + 15 minutes
ExpireToken(t) ==
    /\ tokens' = tokens \ {t}
    /\ UNCHANGED <<status, trail, credential, expired, assignment, deployed, job>>

\* A statement fails, or the process stops: the request ends where it stands.
Abort(h) ==
    /\ "abort" \in Faults
    /\ ~Free(h)
    /\ Finish(h)
    /\ UNCHANGED <<status, trail, credential, expired, assignment, deployed, tokens>>

Administer(h) ==
    \/ \E a \in Asset : RegisterAsset(h, a)
    \/ \E a \in Asset, s \in AdminStatus : ChangeStatus(h, a, s)
    \/ \E c \in Credential : IssueReadsAsset(h, c) \/ RevokeCredential(h, c)
    \/ \E g \in Assignment : AssignReadsAsset(h, g) \/ ReleaseAssignment(h, g)
    \/ IssueInserts(h) \/ AssignInserts(h) \/ WriteAudit(h)

Activate(h) ==
    \/ \E op \in Device, c \in Credential, e \in Event, p \in Person \cup {NoOne} :
         BeginActivation(h, op, c, e, p)
    \/ ReadCredential(h) \/ ReadAsset(h) \/ ReadAssignment(h) \/ ReadDeployment(h)
    \/ TouchCredential(h) \/ PromoteAsset(h)

Next ==
    \/ \E h \in Handler : Administer(h) \/ Activate(h) \/ Abort(h)
    \/ \E e \in Event, a \in Asset : DeployAsset(e, a)
    \/ \E c \in Credential : ExpireCredential(c)
    \/ \E t \in tokens : ExpireToken(t)

Spec == Init /\ [][Next]_vars

------------------------------------------------------------------------------
(* Properties                                                               *)

\* Within an event a person has one active device and a device one active
\* person, whatever assignments and releases run at once
(* (device-onboarding.ts:94-100 relies on the two partial unique indexes).  *)
OneActiveAssignment ==
    \A g, k \in Assignment :
        /\ assignment[g] = "active" /\ assignment[k] = "active"
        /\ AssignmentBody[g].event = AssignmentBody[k].event
        /\ \/ AssignmentBody[g].person = AssignmentBody[k].person
           \/ AssignmentBody[g].asset = AssignmentBody[k].asset
        => g = k

\* "After release or revocation no re-activation is allowed": an activation
\* that arrives after its credential was revoked or has expired, or that
\* relies on an assignment released before it arrived, never gets as far as
\* the token, however its reads interleave with other requests.
NoReactivation ==
    \A h \in Handler :
        /\ job[h].op \in Device
        /\ job[h].at \in {"touch", "promote"}
        => job[h].cred \notin job[h].gone /\ job[h].asg \notin job[h].gone

\* Every device token stands for an assignment of that device to that person
\* in that event, and every gateway token for a deployment; the asset of
\* either was issued a credential.
TokenHasOrigin ==
    \A t \in tokens :
        /\ \E c \in Credential : CredentialAsset[c] = t.asset /\ credential[c] # NoOne
        /\ IF t.person = NoOne
           THEN <<t.event, t.asset>> \in deployed /\ t.asset \in Gateway
           ELSE \E g \in Assignment : assignment[g] # NoOne /\ AssignmentBody[g] = t

\* Only an administrator takes a device out of SUSPENDED, LOST or RETIRED,
\* except for the one race the code has (device-onboarding.ts:222-240): an
\* activation of that very device which had read REGISTERED writes ACTIVE over
\* it.  An activation that read any other status never changes a status.
RevivedOnlyByRace ==
    [][\A a \in Asset :
         status[a] \in Stopped /\ status'[a] # status[a]
         => \E h \in Handler :
              \/ job[h] = Idle /\ job'[h].op = "status"
              \/ /\ job[h].at = "promote" /\ job[h].seen = "REGISTERED"
                 /\ CredentialAsset[job[h].cred] = a]_vars

\* With no request in flight the newest audit row of an asset shows its
\* status: every status change is an audited one.
AuditFollowsStatus ==
    (\A h \in Handler : job[h] = Idle) => trail = status
==============================================================================
