----------------------------- MODULE EventCommands -----------------------------
(***************************************************************************)
(* Commands of the operators in forest-back-demo: drafting, issuing and    *)
(* acknowledging alerts, deciding recommendations, changing the status of  *)
(* tasks and events (routes/resources.ts, routes/events.ts), statement by  *)
(* statement over services/database.ts.  Every command is one HTTP request;*)
(* a retry is another command with the same body.                          *)
(***************************************************************************)
CONSTANTS
    Command,    \* HTTP requests
    Alert,      \* ids of core.alert rows
    Recipient,  \* (recipientType, recipientKey)
    Channel,    \* deliveryChannel
    Task,       \* field_task and decision_recommendation rows
    Event,      \* disaster_event rows
    Value,      \* the statuses operators set on tasks, recommendations, events
    Faults      \* {"abort"}: a command may stop at any await; or {}

\* The statuses a draft is posted with; documented drafts carry none.
DraftStatus == {"DRAFT", "CANCELLED"}
Unset == "unset"
Absent == "ABSENT"
Undecided == "OPEN"

Row == Alert \X Recipient \X Channel

\* An issue names at least one recipient (minItems in openapi.yaml).
Create == [op : {"create"}, on : Alert, status : DraftStatus \cup {Unset}]
Issue == [op : {"issue"}, on : Alert, list : (SUBSET (Recipient \X Channel)) \ {{}}]
Acknowledge == [op : {"acknowledge"}, on : Alert, by : Recipient]
Change == [op : {"change"}, on : Task \cup Event, to : Value]
Body == Create \cup Issue \cup Acknowledge \cup Change

ASSUME CommandsAssumption ==
    /\ Task \cap Event = {}
    /\ Faults \subseteq {"abort"}
    /\ Undecided \notin Value

VARIABLES
    alert,      \* core.alert.status
    matter,     \* status of tasks, recommendations and events
    delivery,   \* alert_delivery rows, each with the command that queued it
    acked,      \* rows with acknowledged_at, each with the command that set it
    trail,      \* commands that have their audit_log row
    body,       \* what each command asks for
    at,         \* the await it stands at
    answer

vars == <<alert, matter, delivery, acked, trail, body, at, answer>>

TypeOK ==
    /\ alert \in [Alert -> DraftStatus \cup {"ISSUED", Absent}]
    /\ matter \in [Task \cup Event -> Value \cup {Undecided}]
    /\ delivery \subseteq Command \X Row
    /\ acked \subseteq Command \X Row
    /\ trail \subseteq Command
    /\ body \in [Command -> Body]
    /\ at \in [Command -> {"idle", "write", "deliver", "audit", "done"}]
    /\ answer \in [Command -> {"none", "ok", "notFound", "error"}]

Init ==
    /\ alert = [a \in Alert |-> Absent]
    /\ matter = [m \in Task \cup Event |-> Undecided]
    /\ delivery = {}
    /\ acked = {}
    /\ trail = {}
    /\ body \in [Command -> Body]
    /\ at = [c \in Command |-> "idle"]
    /\ answer = [c \in Command |-> "none"]

------------------------------------------------------------------------------
rows == <<alert, matter, delivery, acked, trail>>

Goto(c, label) == at' = [at EXCEPT ![c] = label] /\ UNCHANGED <<body, answer>>
Reply(c, kind) ==
    /\ at' = [at EXCEPT ![c] = "done"]
    /\ answer' = [answer EXCEPT ![c] = kind]
    /\ UNCHANGED body

Writing(c, op) == at[c] = "write" /\ body[c].op = op

Arrive(c) ==
    /\ at[c] = "idle"
    /\ Goto(c, "write")
    /\ UNCHANGED rows

\* createRow inserts the body as it is; status is NOT NULL without a default.
CreateAlert(c) ==
    /\ Writing(c, "create")
    /\ alert[body[c].on] = Absent
    /\ IF body[c].status = Unset
       THEN Reply(c, "error") /\ UNCHANGED alert
       ELSE Reply(c, "ok") /\ alert' = [alert EXCEPT ![body[c].on] = body[c].status]
    /\ UNCHANGED <<matter, delivery, acked, trail>>

\* The alert's status moves only after the deliveries were queued.
IssueUpdatesLater(c) ==
    /\ Writing(c, "issue")
    /\ alert[body[c].on] # Absent
    /\ Goto(c, "deliver")
    /\ UNCHANGED rows
\* The first statement of an issue: no look at the status the alert has.
IssueUpdates(c) ==
    /\ Writing(c, "issue")
    /\ alert[body[c].on] # Absent
    /\ alert' = [alert EXCEPT ![body[c].on] = "ISSUED"]
    /\ Goto(c, "deliver")
    /\ UNCHANGED <<matter, delivery, acked, trail>>

\* UNIQUE (alert, recipient type, recipient key, channel)
RowsOf(c) == {<<body[c].on, t[1], t[2]>> : t \in body[c].list}
RowsFree(c) == \A d \in delivery : d[2] \notin RowsOf(c)

\* The insert may fail and its error is not looked at.
QueueDeliveriesUnchecked(c) ==
    /\ at[c] = "deliver"
    /\ RowsFree(c)
    /\ delivery' \in {delivery, delivery \cup {<<c, row>> : row \in RowsOf(c)}}
    /\ Goto(c, "audit")
    /\ UNCHANGED <<alert, matter, acked, trail>>
\* One insert statement for all recipients: all of them or none.
QueueDeliveries(c) ==
    /\ at[c] = "deliver"
    /\ RowsFree(c)
    /\ delivery' = delivery \cup {<<c, row>> : row \in RowsOf(c)}
    /\ Goto(c, "audit")
    /\ UNCHANGED <<alert, matter, acked, trail>>

\* A conflict that is ignored, as with an upsert that skips duplicates.
DeliveriesConflictIgnored(c) ==
    /\ at[c] = "deliver"
    /\ ~RowsFree(c)
    /\ Goto(c, "audit")
    /\ UNCHANGED rows
DeliveriesConflict(c) ==
    /\ at[c] = "deliver"
    /\ ~RowsFree(c)
    /\ Reply(c, "error")
    /\ UNCHANGED rows

Delivered(c) == {d \in delivery : d[2][1] = body[c].on /\ d[2][2] = body[c].by}

\* update ... maybeSingle(): exactly one row, else nothing is written; more
\* than one channel of the same recipient is an error.
AcknowledgeOne(c) ==
    /\ Writing(c, "acknowledge")
    /\ \E d \in delivery :
         /\ Delivered(c) = {d}
         /\ acked' = acked \cup {<<c, d[2]>>}
    /\ Goto(c, "audit")
    /\ UNCHANGED <<alert, matter, delivery, trail>>

AcknowledgeMany(c) ==
    /\ Writing(c, "acknowledge")
    /\ \E d, e \in Delivered(c) : d # e
    /\ Reply(c, "error")
    /\ UNCHANGED rows

NotFound(c) ==
    /\ at[c] = "write"
    /\ \/ body[c].op = "issue" /\ alert[body[c].on] = Absent
       \/ body[c].op = "acknowledge" /\ Delivered(c) = {}
    /\ Reply(c, "notFound")
    /\ UNCHANGED rows

\* Tasks and recommendations are audited, the status of an event is not.
ChangeMatter(c) ==
    /\ Writing(c, "change")
    /\ matter' = [matter EXCEPT ![body[c].on] = body[c].to]
    /\ IF body[c].on \in Task THEN Goto(c, "audit") ELSE Reply(c, "ok")
    /\ UNCHANGED <<alert, delivery, acked, trail>>

\* The answer is sent while the audit row is still being written.
WriteAuditUnawaited(c) ==
    /\ at[c] = "audit"
    /\ Reply(c, "ok")
    /\ trail' \in {trail, trail \cup {c}}
    /\ UNCHANGED <<alert, matter, delivery, acked>>
WriteAudit(c) ==
    /\ at[c] = "audit"
    /\ trail' = trail \cup {c}
    /\ Reply(c, "ok")
    /\ UNCHANGED <<alert, matter, delivery, acked>>

\* A statement fails or the process stops.  An answer lost on the way to the
\* next statement leaves the same rows as that statement failing.
Abort(c) ==
    /\ "abort" \in Faults
    /\ at[c] \in {"write", "deliver", "audit"}
    /\ Reply(c, "error")
    /\ UNCHANGED rows

Step(c) ==
    \/ Arrive(c) \/ CreateAlert(c) \/ IssueUpdates(c) \/ QueueDeliveries(c)
    \/ DeliveriesConflict(c) \/ AcknowledgeOne(c) \/ AcknowledgeMany(c)
    \/ NotFound(c) \/ ChangeMatter(c) \/ WriteAudit(c) \/ Abort(c)

Next == \E c \in Command : Step(c)

Spec == Init /\ [][Next]_vars

------------------------------------------------------------------------------
(* Properties                                                              *)

\* However many issues and retries overlap, a recipient is queued at most
\* once per alert and channel (resources.ts:245 and the UNIQUE constraint).
QueuedOnce ==
    \A d, e \in delivery : d[2] = e[2] => d = e

\* A queued or acknowledged delivery belongs to an alert that reads ISSUED:
\* readers of the alert list never see a draft whose recipients were told.
DeliveriesOfIssued ==
    /\ \A d \in delivery : alert[d[2][1]] = "ISSUED"
    /\ \A k \in acked : \E d \in delivery : d[2] = k[2]

\* An audit row tells the truth: the recipients it lists were queued by this
\* very command, the acknowledgement it reports was written (resources.ts:247).
TrailTellsTruth ==
    \A c \in trail :
        /\ body[c].op = "issue" => {c} \X RowsOf(c) \subseteq delivery
        /\ body[c].op = "acknowledge" => \E k \in acked : k[1] = c

\* Every alert, task and recommendation command answered 200 is audited.
OkIsAudited ==
    \A c \in Command :
        /\ answer[c] = "ok"
        /\ \/ body[c].op \in {"issue", "acknowledge"}
           \/ body[c].op = "change" /\ body[c].on \in Task
        => c \in trail

\* The status and the recipients of an issue are two statements
\* (resources.ts:235 and 246).  An alert reads ISSUED without anybody queued
\* only while the second is still to come, or when it failed and the operator
\* was answered an error: nobody is told "ok" about an alert nobody gets.
IssuedIsTold ==
    \A a \in Alert :
        alert[a] = "ISSUED" =>
            \/ \E d \in delivery : d[2][1] = a
            \/ \E c \in Command :
                 /\ body[c].op = "issue" /\ body[c].on = a
                 /\ at[c] = "deliver" \/ answer[c] = "error"
==============================================================================
