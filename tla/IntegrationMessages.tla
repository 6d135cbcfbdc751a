------------------------- MODULE IntegrationMessages -------------------------
(***************************************************************************)
(* The integration API of forest-back-demo: POST /:capabilityId/invoke and *)
(* POST /:capabilityId/results (routes/integrations.ts) over the message   *)
(* log (shared/message-log.ts), the result tables (shared/result-store.ts) *)
(* and the JSON caller (shared/json-http-adapter.ts).                      *)
(*                                                                         *)
(* Every element of Request is one HTTP request, handled once.  A client   *)
(* retry is another element with the same body.  Each await of a handler   *)
(* ends an action, so the handlers interleave at their awaits as they do   *)
(* on the Node event loop.                                                 *)
(***************************************************************************)
EXTENDS FiniteSets

CONSTANTS
    Request,        \* HTTP requests
    Capability,     \* capability ids of the registry
    RequestId,      \* context.requestId = Idempotency-Key
    Observation,    \* natural keys of observations, e.g. (asset, observedAt)
    Direction,      \* [Capability -> declared direction]
    ResultTarget,   \* capabilities that declare a resultTarget table
    NaturalKeyed,   \* those whose target table is UNIQUE on the observation
    Faults          \* which failures may happen, a subset of FaultKind

FaultKind == {"db",      \* a statement fails and is not applied
              "reply",   \* a statement is applied but its answer is lost
              "crash",   \* the back end stops and is started again
              "service"} \* the external service is slow or refuses

ASSUME CapabilityAssumption ==
    /\ Direction \in [Capability -> {"INBOUND", "OUTBOUND", "BIDIRECTIONAL"}]
    /\ ResultTarget \subseteq Capability
    /\ NaturalKeyed \subseteq ResultTarget
    /\ Faults \subseteq FaultKind

Body == [cap : Capability, op : {"invoke", "results"},
         rid : RequestId, obs : Observation]

Status == {"RECEIVED", "DISPATCHED", "ACCEPTED", "SUCCEEDED", "REJECTED",
           "FAILED"}
Settled == {"ACCEPTED", "SUCCEEDED", "REJECTED", "FAILED"}
NoRow == "NONE"

VARIABLES
    req,     \* the body each request carries
    pc,      \* where its handler stands
    log,     \* status of the integration_message row it inserted, or NoRow
    stored,  \* requests that inserted a row into their result table
    calls,   \* the outbound call of a request: "none", "sent", "executed"
    answer   \* the HTTP answer

vars == <<req, pc, log, stored, calls, answer>>

Awaiting == {"begin", "find", "work", "await", "settle", "fail"}

AnswerKind == {"none", "refused", "ok", "duplicate", "error"}
NoAnswer == [kind |-> "none", status |-> NoRow]

TypeOK ==
    /\ req \in [Request -> Body]
    /\ pc \in [Request -> Awaiting \cup {"idle", "done", "dead"}]
    /\ log \in [Request -> Status \cup {NoRow}]
    /\ stored \subseteq Request
    /\ calls \in [Request -> {"none", "sent", "executed"}]
    /\ answer \in [Request -> [kind : AnswerKind, status : Status \cup {NoRow}]]

Init ==
    /\ req \in [Request -> Body]
    /\ pc = [r \in Request |-> "idle"]
    /\ log = [r \in Request |-> NoRow]
    /\ stored = {}
    /\ calls = [r \in Request |-> "none"]
    /\ answer = [r \in Request |-> NoAnswer]

------------------------------------------------------------------------------
(* The row a request inserts, and the UNIQUE constraint on its key.        *)

Flow(r) == IF req[r].op = "invoke" THEN "OUTBOUND" ELSE "INBOUND"
KeyOf(r) == <<req[r].cap, Flow(r), req[r].rid>>

\* The database would accept two rows of one key.
KeyFreeUnchecked(r) == TRUE
KeyFree(r) == \A q \in Request : log[q] # NoRow => KeyOf(q) # KeyOf(r)

\* UNIQUE constraint of the result table, e.g. asset_status(asset, observed_at)
TargetFree(r) ==
    req[r].cap \in NaturalKeyed =>
        \A q \in stored : req[q].cap = req[r].cap => req[q].obs # req[r].obs

Opened(r) == IF req[r].op = "invoke" THEN "DISPATCHED" ELSE "RECEIVED"
Succeeded(r) == IF req[r].op = "invoke" THEN "SUCCEEDED" ELSE "ACCEPTED"
Failed(r) == IF req[r].op = "invoke" THEN "FAILED" ELSE "REJECTED"

Goto(r, label) == pc' = [pc EXCEPT ![r] = label] /\ UNCHANGED answer
Reply(r, kind, status) ==
    /\ pc' = [pc EXCEPT ![r] = "done"]
    /\ answer' = [answer EXCEPT ![r] = [kind |-> kind, status |-> status]]

------------------------------------------------------------------------------
(* One handler, await by await.                                            *)

Supports(r) == Direction[req[r].cap] # (IF req[r].op = "invoke"
                                        THEN "INBOUND" ELSE "OUTBOUND")

Arrive(r) ==
    /\ pc[r] = "idle"
    /\ Supports(r)
    /\ Goto(r, "begin")
    /\ UNCHANGED <<req, log, stored, calls>>

\* 404, 405, or 400 from a validator: no message row exists yet.
Refuse(r) ==
    /\ pc[r] = "idle"
    /\ Reply(r, "refused", NoRow)
    /\ UNCHANGED <<req, log, stored, calls>>

\* insert(row).select().single(): when the answer of the insert is lost the
\* handler has no messageId, so its catch leaves the row as it is.
BeginMessage(r) ==
    /\ pc[r] = "begin"
    /\ KeyFree(r)
    /\ log' = [log EXCEPT ![r] = Opened(r)]
    /\ \/ Goto(r, "work")
       \/ "reply" \in Faults /\ Reply(r, "error", NoRow)
    /\ UNCHANGED <<req, stored, calls>>

\* A handler that processes a message again instead of looking it up.
BeginConflictsReprocess(r) ==
    /\ pc[r] = "begin"
    /\ ~KeyFree(r)
    /\ Goto(r, "work")
    /\ UNCHANGED <<req, log, stored, calls>>
BeginConflicts(r) ==
    /\ pc[r] = "begin"
    /\ ~KeyFree(r)
    /\ Goto(r, "find")
    /\ UNCHANGED <<req, log, stored, calls>>

\* A duplicate that is told the success its original is expected to have.
AnswerDuplicateOptimistic(r) ==
    /\ pc[r] = "find"
    /\ \E q \in Request :
         /\ log[q] # NoRow
         /\ KeyOf(q) = KeyOf(r)
         /\ Reply(r, "duplicate", Succeeded(q))
    /\ UNCHANGED <<req, log, stored, calls>>
\* Rows are never deleted, so the row that caused the conflict is found.
AnswerDuplicate(r) ==
    /\ pc[r] = "find"
    /\ \E q \in Request :
         /\ log[q] # NoRow
         /\ KeyOf(q) = KeyOf(r)
         /\ Reply(r, "duplicate", log[q])
    /\ UNCHANGED <<req, log, stored, calls>>

LogUnavailable(r) ==
    /\ pc[r] \in {"begin", "find"}
    /\ "db" \in Faults
    /\ Reply(r, "error", NoRow)
    /\ UNCHANGED <<req, log, stored, calls>>

StoreNothing(r) ==
    /\ pc[r] = "work"
    /\ req[r].op = "results"
    /\ req[r].cap \notin ResultTarget
    /\ Goto(r, "settle")
    /\ UNCHANGED <<req, log, stored, calls>>

StoreResult(r) ==
    /\ pc[r] = "work"
    /\ req[r].op = "results"
    /\ req[r].cap \in ResultTarget
    /\ TargetFree(r)
    /\ stored' = stored \cup {r}
    /\ \/ Goto(r, "settle")
       \/ "reply" \in Faults /\ Goto(r, "fail")
    /\ UNCHANGED <<req, log, calls>>

\* An unregistered or stopped asset, no active assignment, a row that breaks
\* a constraint of the target, or a database error: the store throws.
StoreThrowsIgnored(r) ==
    /\ pc[r] = "work"
    /\ req[r].op = "results"
    /\ req[r].cap \in ResultTarget
    /\ Goto(r, "settle")
    /\ UNCHANGED <<req, log, stored, calls>>
StoreThrows(r) ==
    /\ pc[r] = "work"
    /\ req[r].op = "results"
    /\ req[r].cap \in ResultTarget
    /\ Goto(r, "fail")
    /\ UNCHANGED <<req, log, stored, calls>>

SendCall(r) ==
    /\ pc[r] = "work"
    /\ req[r].op = "invoke"
    /\ calls' = [calls EXCEPT ![r] = "sent"]
    /\ Goto(r, "await")
    /\ UNCHANGED <<req, log, stored>>

\* The service acts in its own time, its caller present or not.
ServiceExecutes(r) ==
    /\ calls[r] = "sent"
    /\ calls' = [calls EXCEPT ![r] = "executed"]
    /\ UNCHANGED <<req, pc, log, stored, answer>>

CallAnswers(r) ==
    /\ pc[r] = "await"
    /\ calls[r] = "executed"
    /\ Goto(r, "settle")
    /\ UNCHANGED <<req, log, stored, calls>>

\* No endpoint configured ("work"); a network error, an answer that is not
\* 2xx, or none within the 5 s of AbortSignal.timeout ("await").
CallFailsNoTimeout(r) ==
    /\ pc[r] = "work"
    /\ req[r].op = "invoke"
    /\ Goto(r, "fail")
    /\ UNCHANGED <<req, log, stored, calls>>
CallFails(r) ==
    /\ \/ pc[r] = "work" /\ req[r].op = "invoke"
       \/ pc[r] = "await" /\ "service" \in Faults
    /\ Goto(r, "fail")
    /\ UNCHANGED <<req, log, stored, calls>>

\* finishIntegrationMessage(messageId, "ACCEPTED" | "SUCCEEDED")
FinishOkUnsaved(r) ==
    /\ pc[r] = "settle"
    /\ Reply(r, "ok", Succeeded(r))
    /\ UNCHANGED <<req, log, stored, calls>>
FinishOk(r) ==
    /\ pc[r] = "settle"
    /\ log' = [log EXCEPT ![r] = Succeeded(r)]
    /\ \/ Reply(r, "ok", Succeeded(r))
       \/ "reply" \in Faults /\ Goto(r, "fail")
    /\ UNCHANGED <<req, stored, calls>>

FinishOkThrows(r) ==
    /\ pc[r] = "settle"
    /\ "db" \in Faults
    /\ Goto(r, "fail")
    /\ UNCHANGED <<req, log, stored, calls>>

\* A catch block that answers without finishing the message.
FinishFailedUnlogged(r) ==
    /\ pc[r] = "fail"
    /\ Reply(r, "error", NoRow)
    /\ UNCHANGED <<req, log, stored, calls>>
\* The catch block: finish(..., "REJECTED" | "FAILED"), its error swallowed.
FinishFailed(r) ==
    /\ pc[r] = "fail"
    /\ \/ log' = [log EXCEPT ![r] = Failed(r)]
       \/ "db" \in Faults /\ UNCHANGED log
    /\ Reply(r, "error", NoRow)
    /\ UNCHANGED <<req, stored, calls>>

\* The process stops: every handler in flight is lost, the database is not.
Crash ==
    /\ "crash" \in Faults
    /\ \E r \in Request : pc[r] \in Awaiting
    /\ pc' = [r \in Request |-> IF pc[r] \in Awaiting THEN "dead" ELSE pc[r]]
    /\ UNCHANGED <<req, log, stored, calls, answer>>

------------------------------------------------------------------------------
Handle(r) ==
    \/ BeginMessage(r) \/ BeginConflicts(r) \/ AnswerDuplicate(r)
    \/ LogUnavailable(r) \/ StoreNothing(r) \/ StoreResult(r) \/ StoreThrows(r)
    \/ SendCall(r) \/ CallAnswers(r) \/ CallFails(r)
    \/ FinishOk(r) \/ FinishOkThrows(r) \/ FinishFailed(r)

Next ==
    \/ \E r \in Request : Arrive(r) \/ Refuse(r) \/ Handle(r) \/ ServiceExecutes(r)
    \/ Crash

Spec == Init /\ [][Next]_vars

\* The event loop resumes every handler whose await has completed, and every
\* outbound call completes or is aborted after 5 seconds.
FairSpec == Spec /\ \A r \in Request : WF_vars(Handle(r))

------------------------------------------------------------------------------
(* Properties                                                              *)

Effected(r) == r \in stored \/ calls[r] # "none"

\* At most one integration_message row per (capability, direction, requestId),
\* however many requests with that key run at once (message-log.ts:14-45).
OneRowPerKey ==
    \A q, r \in Request :
        log[q] # NoRow /\ log[r] # NoRow /\ KeyOf(q) = KeyOf(r) => q = r

\* At most one business effect per key: retries and concurrent duplicates
\* neither store a second result nor send a second outbound call, also when
\* the first attempt failed, crashed or lost a database answer.
OneEffectPerKey ==
    \A q, r \in Request :
        Effected(q) /\ Effected(r) /\ KeyOf(q) = KeyOf(r) => q = r

\* A message recorded ACCEPTED has its result row (when its capability has a
\* target) and one recorded SUCCEEDED was executed by the service.
SuccessIsBacked ==
    \A r \in Request :
        /\ log[r] = "ACCEPTED" => r \in stored \/ req[r].cap \notin ResultTarget
        /\ log[r] = "SUCCEEDED" => calls[r] = "executed"

\* What a first answer reported stays true: after HTTP 200 for a fresh
\* request the log says so for ever, whatever retries, crashes or faults follow.
FreshAnswerIsDurable ==
    \A r \in Request : answer[r].kind = "ok" => log[r] = Succeeded(r)

\* A settled status shown to a duplicate is never taken back, with one
\* exception: when the answer of the finishing update is lost, the catch block
\* overwrites a success by the failure of the same flow (message-log.ts:65).
Retracted(r, status) ==
    "reply" \in Faults /\ status = Succeeded(r) /\ log[r] = Failed(r)
ToldStatusHolds ==
    \A d, r \in Request :
        /\ answer[d].kind = "duplicate"
        /\ answer[d].status \in Settled
        /\ log[r] # NoRow /\ KeyOf(r) = KeyOf(d)
        => log[r] = answer[d].status \/ Retracted(r, answer[d].status)

\* A message stays open only in the hands of its handler: one that has answered
\* has settled it, unless the process stopped under it or the database failed
\* the statement it would have settled it with (integrations.ts:101-156).
Abandoned(r) ==
    pc[r] = "dead" \/ (Faults \cap {"db", "reply"} # {} /\ answer[r].kind = "error")
OpenIsOwned ==
    \A r \in Request : log[r] \in {"RECEIVED", "DISPATCHED"} =>
        pc[r] \in {"work", "await", "settle", "fail"} \/ Abandoned(r)

\* Every message row reaches a settled status when the process keeps running
\* and the database answers, also when the store throws or the service is
\* slow (DB-018 and FLT-001 of functional-test-cases.md).
EveryMessageSettles ==
    \A r \in Request : log[r] # NoRow ~> log[r] \in Settled

------------------------------------------------------------------------------
(* Refinement: the key's row is the ledger entry, stored rows and executed  *)
(* calls are its effects.                                                   *)

AllKeys == Capability \X {"INBOUND", "OUTBOUND"} \X RequestId
RowsOf(k) == {r \in Request : log[r] # NoRow /\ KeyOf(r) = k}
EntryName(s) == CASE s \in {"RECEIVED", "DISPATCHED"} -> "open"
                  [] s \in {"ACCEPTED", "SUCCEEDED"} -> "succeeded"
                  [] OTHER -> "failed"
Entries == [k \in AllKeys |-> IF RowsOf(k) = {} THEN "absent"
                              ELSE EntryName(log[CHOOSE r \in RowsOf(k) : TRUE])]
Performed(r) == r \in stored \/ calls[r] = "executed"
Effects == [k \in AllKeys |-> {r \in Request : Performed(r) /\ KeyOf(r) = k}]
NeedNoEffect == {k \in AllKeys : k[2] = "INBOUND" /\ k[1] \notin ResultTarget}

Ledger == INSTANCE MessageLedger WITH
    Key <- AllKeys, Effect <- Request, Effectless <- NeedNoEffect,
    entry <- Entries, effects <- Effects

\* The handlers implement the ledger: one entry and one effect per key.
ImplementsLedger == Ledger!LedgerSpec
==============================================================================
