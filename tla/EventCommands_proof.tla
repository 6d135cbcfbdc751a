-------------------------- MODULE EventCommands_proof --------------------------
(***************************************************************************)
(* Theorems about the operator commands, for any number of commands,       *)
(* alerts, recipients and channels, whatever stops at whichever await.     *)
(***************************************************************************)
EXTENDS EventCommands, TLAPS

\* What a command has done when it stands at an await.
Progress ==
    \A c \in Command :
        /\ at[c] = "deliver" => body[c].op = "issue" /\ alert[body[c].on] = "ISSUED"
        /\ at[c] = "audit" /\ body[c].op = "issue" => {c} \X RowsOf(c) \subseteq delivery
        /\ at[c] = "audit" /\ body[c].op = "acknowledge" => \E k \in acked : k[1] = c
        /\ answer[c] # "none" => at[c] = "done"
        /\ at[c] = "audit" => body[c].op # "create"

IInv == TypeOK /\ Progress /\ QueuedOnce /\ DeliveriesOfIssued /\ TrailTellsTruth /\ OkIsAudited
        /\ IssuedIsTold

USE DEF DraftStatus, Unset, Absent, Undecided, Row

\* The bodies by kind: what a field of a body of each kind is.
LEMMA BodyKinds ==
    ASSUME NEW b \in Body
    PROVE  /\ b.op \in {"create", "issue", "acknowledge", "change"}
           /\ b.op = "create" => b.on \in Alert /\ b.status \in DraftStatus \cup {Unset}
           /\ b.op = "issue" => /\ b.on \in Alert /\ b.list \in SUBSET (Recipient \X Channel)
                            /\ b.list # {}
           /\ b.op = "acknowledge" => b.on \in Alert /\ b.by \in Recipient
           /\ b.op = "change" => b.on \in Task \cup Event /\ b.to \in Value
  BY DEF Body, Create, Issue, Acknowledge, Change

LEMMA RowsAreRows ==
    ASSUME TypeOK, NEW c \in Command, body[c].op = "issue"
    PROVE  /\ RowsOf(c) \subseteq Row /\ RowsOf(c) # {}
           /\ \A row \in RowsOf(c) : row[1] = body[c].on
<1>1. body[c] \in Body
  BY DEF TypeOK
<1>2. body[c].on \in Alert /\ body[c].list \in SUBSET (Recipient \X Channel) /\ body[c].list # {}
  BY <1>1, BodyKinds
<1>3. RowsOf(c) \subseteq Row /\ \A row \in RowsOf(c) : row[1] = body[c].on
  BY <1>2 DEF RowsOf
<1>4. RowsOf(c) # {}
  <2>1. PICK t \in body[c].list : TRUE
    BY <1>2
  <2>2. <<body[c].on, t[1], t[2]>> \in RowsOf(c)
    BY DEF RowsOf
  <2> QED BY <2>2
<1> QED BY <1>3, <1>4

LEMMA InitHolds == Init => IInv
  BY DEF Init, IInv, TypeOK, Progress, QueuedOnce, DeliveriesOfIssued,
         TrailTellsTruth, OkIsAudited, IssuedIsTold

\* Who queued something stays, who is about to queue does so or is answered an
\* error, and answers are final.
LEMMA StepKeepsTold ==
    ASSUME TypeOK, Progress, IssuedIsTold, NEW c \in Command, Step(c)
    PROVE  IssuedIsTold'
<1> USE DEF Goto, Reply, Writing, rows
<1> SUFFICES ASSUME NEW a \in Alert, alert'[a] = "ISSUED"
             PROVE  \/ \E d \in delivery' : d[2][1] = a
                    \/ \E k \in Command :
                         /\ body[k].op = "issue" /\ body[k].on = a
                         /\ at'[k] = "deliver" \/ answer'[k] = "error"
<2>1. body' = body
  BY DEF Step, Arrive, CreateAlert, IssueUpdates, QueueDeliveries, DeliveriesConflict,
         AcknowledgeOne, AcknowledgeMany, NotFound, ChangeMatter, WriteAudit, Abort
<2> QED BY <2>1 DEF IssuedIsTold
<1> DEFINE Told == \/ \E d \in delivery : d[2][1] = a
                   \/ \E k \in Command :
                        /\ body[k].op = "issue" /\ body[k].on = a
                        /\ at[k] = "deliver" \/ answer[k] = "error"
<1>1. CASE IssueUpdates(c)
  <2>1. CASE body[c].on = a
    BY <1>1, <2>1 DEF IssueUpdates, TypeOK
  <2>2. CASE body[c].on # a
    <3>1. alert[a] = "ISSUED"
      BY <1>1, <2>2 DEF IssueUpdates, TypeOK
    <3> QED BY <1>1, <3>1 DEF IssueUpdates, IssuedIsTold, TypeOK
  <2> QED BY <2>1, <2>2
<1>2. CASE QueueDeliveries(c)
  <2>1. body[c].op = "issue" /\ alert[a] = "ISSUED"
    BY <1>2 DEF QueueDeliveries, Progress
  <2>2. PICK row \in RowsOf(c) : row[1] = body[c].on
    BY <2>1, RowsAreRows
  <2>3. <<c, row>> \in delivery' /\ delivery \subseteq delivery' /\ <<c, row>>[2][1] = body[c].on
    BY <1>2, <2>2 DEF QueueDeliveries
  <2>4. \A k \in Command : k # c => at'[k] = at[k] /\ answer'[k] = answer[k]
    BY <1>2 DEF QueueDeliveries, TypeOK
  <2>5. answer[c] # "error"
    BY <1>2 DEF QueueDeliveries, Progress
  <2>6. CASE body[c].on = a
    BY <2>3, <2>6
  <2>7. CASE body[c].on # a
    BY <2>1, <2>3, <2>4, <2>7 DEF IssuedIsTold
  <2> QED BY <2>6, <2>7
<1>3. ASSUME delivery \subseteq delivery', alert[a] = "ISSUED",
             \A k \in Command :
                 at[k] = "deliver" \/ answer[k] = "error"
                 => at'[k] = "deliver" \/ answer'[k] = "error"
      PROVE  \/ \E d \in delivery' : d[2][1] = a
             \/ \E k \in Command :
                  /\ body[k].op = "issue" /\ body[k].on = a
                  /\ at'[k] = "deliver" \/ answer'[k] = "error"
  BY <1>3 DEF IssuedIsTold
<1>4. CASE \/ Arrive(c) \/ CreateAlert(c) \/ DeliveriesConflict(c) \/ AcknowledgeOne(c)
           \/ AcknowledgeMany(c) \/ NotFound(c) \/ ChangeMatter(c) \/ WriteAudit(c) \/ Abort(c)
  <2>1. delivery' = delivery
    BY <1>4 DEF Arrive, CreateAlert, DeliveriesConflict, AcknowledgeOne,
           AcknowledgeMany, NotFound, ChangeMatter, WriteAudit, Abort
  <2>2. alert[a] = "ISSUED"
    <3>1. CASE CreateAlert(c)
      <4>1. body[c].op = "create" /\ body[c] \in Body
        BY <3>1 DEF CreateAlert, TypeOK
      <4>2. body[c].on \in Alert /\ body[c].status \in DraftStatus \cup {Unset}
        BY <4>1, BodyKinds
      <4> QED BY <3>1, <4>2 DEF CreateAlert, TypeOK
    <3>2. CASE ~CreateAlert(c)
      BY <1>4, <3>2 DEF Arrive, DeliveriesConflict, AcknowledgeOne,
             AcknowledgeMany, NotFound, ChangeMatter, WriteAudit, Abort
    <3> QED BY <3>1, <3>2
  <2>3. \A k \in Command :
          at[k] = "deliver" \/ answer[k] = "error" => at'[k] = "deliver" \/ answer'[k] = "error"
    BY <1>4 DEF Arrive, CreateAlert, DeliveriesConflict, AcknowledgeOne, AcknowledgeMany,
           NotFound, ChangeMatter, WriteAudit, Abort, TypeOK, Progress
  <2> QED BY <1>3, <2>1, <2>2, <2>3
<1> QED BY <1>1, <1>2, <1>4 DEF Step

\* One step of one command keeps the invariant; the parts it does not touch
\* carry over because rows are only ever added.
LEMMA StepHolds ==
    ASSUME IInv, NEW c \in Command, Step(c)
    PROVE  IInv'
<1> USE DEF rows, Goto, Reply, Writing
<1>0. TypeOK /\ body[c] \in Body /\ body' = body
  BY DEF IInv, TypeOK, Step, Arrive, CreateAlert, IssueUpdates, QueueDeliveries,
         DeliveriesConflict, AcknowledgeOne, AcknowledgeMany, NotFound,
         ChangeMatter, WriteAudit, Abort
<1>t. IssuedIsTold'
  BY StepKeepsTold DEF IInv
<1>r. \A k \in Command : RowsOf(k)' = RowsOf(k)
  BY <1>0 DEF RowsOf
<1>a. CASE Arrive(c)
  BY <1>0, <1>r, <1>t, <1>a DEF Arrive, IInv, TypeOK, Progress, QueuedOnce,
         DeliveriesOfIssued, TrailTellsTruth, OkIsAudited
<1>b. CASE CreateAlert(c)
  <2>1. body[c].op = "create" /\ body[c].on \in Alert
    BY <1>0, <1>b, BodyKinds DEF CreateAlert
  <2>2. alert' \in [Alert -> DraftStatus \cup {"ISSUED", Absent}]
    BY <1>0, <1>b, BodyKinds DEF CreateAlert, TypeOK
  <2>3. \A a \in Alert : alert[a] = "ISSUED" => alert'[a] = "ISSUED"
    BY <1>0, <1>b, <2>1 DEF CreateAlert, TypeOK
  <2>4. TypeOK'
    BY <1>0, <1>b, <2>2 DEF CreateAlert, TypeOK
  <2>5. Progress'
    <3> SUFFICES ASSUME NEW k \in Command PROVE
        /\ at'[k] = "deliver" => body[k].op = "issue" /\ alert'[body[k].on] = "ISSUED"
        /\ at'[k] = "audit" /\ body[k].op = "issue" => {k} \X RowsOf(k) \subseteq delivery'
        /\ at'[k] = "audit" /\ body[k].op = "acknowledge" => \E j \in acked' : j[1] = k
        /\ answer'[k] # "none" => at'[k] = "done"
        /\ at'[k] = "audit" => body[k].op # "create"
      BY <1>0, <1>r DEF Progress
    <3>1. at[k] = "deliver" => body[k].on \in Alert
      BY <1>0, BodyKinds DEF Progress, IInv, TypeOK
    <3> QED BY <1>0, <1>b, <2>3, <3>1 DEF CreateAlert, Progress, IInv, TypeOK
  <2>6. DeliveriesOfIssued'
    <3>1. delivery \subseteq Command \X Row
      BY <1>0 DEF TypeOK
    <3>2. \A d \in delivery : d[2][1] \in Alert
      BY <3>1
    <3> QED BY <1>b, <2>3, <3>2 DEF CreateAlert, DeliveriesOfIssued, IInv
  <2>7. QueuedOnce' /\ TrailTellsTruth'
    BY <1>0, <1>r, <1>b DEF CreateAlert, QueuedOnce, TrailTellsTruth, IInv, TypeOK
  <2>8. OkIsAudited'
    <3> QED BY <1>0, <1>b, <2>1 DEF CreateAlert, OkIsAudited, IInv, TypeOK
  <2> QED BY <1>t, <2>4, <2>5, <2>6, <2>7, <2>8 DEF IInv
<1>c. CASE IssueUpdates(c)
  <2>1. body[c].op = "issue" /\ body[c].on \in Alert
    BY <1>0, <1>c, BodyKinds DEF IssueUpdates
  <2>2. alert' \in [Alert -> DraftStatus \cup {"ISSUED", Absent}]
    BY <1>0, <1>c, <2>1 DEF IssueUpdates, TypeOK
  <2>3. /\ \A a \in Alert : alert[a] = "ISSUED" => alert'[a] = "ISSUED"
        /\ alert'[body[c].on] = "ISSUED"
    BY <1>0, <1>c, <2>1 DEF IssueUpdates, TypeOK
  <2>4. TypeOK'
    BY <1>0, <1>c, <2>2 DEF IssueUpdates, TypeOK
  <2>5. Progress'
    <3> SUFFICES ASSUME NEW k \in Command PROVE
        /\ at'[k] = "deliver" => body[k].op = "issue" /\ alert'[body[k].on] = "ISSUED"
        /\ at'[k] = "audit" /\ body[k].op = "issue" => {k} \X RowsOf(k) \subseteq delivery'
        /\ at'[k] = "audit" /\ body[k].op = "acknowledge" => \E j \in acked' : j[1] = k
        /\ answer'[k] # "none" => at'[k] = "done"
        /\ at'[k] = "audit" => body[k].op # "create"
      BY <1>0, <1>r DEF Progress
    <3>1. at[k] = "deliver" => body[k].on \in Alert
      BY <1>0, BodyKinds DEF Progress, IInv, TypeOK
    <3> QED BY <1>0, <1>c, <2>1, <2>3, <3>1 DEF IssueUpdates, Progress, IInv, TypeOK
  <2>6. DeliveriesOfIssued'
    <3>1. delivery \subseteq Command \X Row
      BY <1>0 DEF TypeOK
    <3>2. \A d \in delivery : d[2][1] \in Alert
      BY <3>1
    <3> QED BY <1>c, <2>3, <3>2 DEF IssueUpdates, DeliveriesOfIssued, IInv
  <2>7. QueuedOnce' /\ TrailTellsTruth' /\ OkIsAudited'
    BY <1>0, <1>r, <1>c DEF IssueUpdates, QueuedOnce, TrailTellsTruth, OkIsAudited, IInv, TypeOK
  <2> QED BY <1>t, <2>4, <2>5, <2>6, <2>7 DEF IInv
<1>d. CASE QueueDeliveries(c)
  <2>1. body[c].op = "issue" /\ alert[body[c].on] = "ISSUED"
    BY <1>d DEF QueueDeliveries, Progress, IInv
  <2>2. RowsOf(c) \subseteq Row /\ \A row \in RowsOf(c) : row[1] = body[c].on
    BY <1>0, <2>1, RowsAreRows
  <2> DEFINE new == {<<c, row>> : row \in RowsOf(c)}
  <2>3. /\ new = {c} \X RowsOf(c)
        /\ delivery' = delivery \cup new
        /\ UNCHANGED <<alert, acked, trail>>
    BY <1>d DEF QueueDeliveries
  <2>4. TypeOK'
    BY <1>0, <1>d, <2>2 DEF QueueDeliveries, TypeOK
  <2>5. Progress'
    BY <1>0, <1>r, <1>d, <2>1, <2>3 DEF QueueDeliveries, Progress, IInv, TypeOK
  <2>6. QueuedOnce'
    <3>1. \A d \in delivery, e \in new : d[2] # e[2]
      BY <1>d DEF QueueDeliveries, RowsFree
    <3>2. \A d, e \in new : d[2] = e[2] => d = e
      OBVIOUS
    <3> QED BY <2>3, <3>1, <3>2 DEF QueuedOnce, IInv
  <2>7. DeliveriesOfIssued'
    <3>1. \A d \in new : alert[d[2][1]] = "ISSUED"
      BY <2>1, <2>2
    <3> QED BY <2>3, <3>1 DEF DeliveriesOfIssued, IInv
  <2>8. TrailTellsTruth' /\ OkIsAudited'
    BY <1>0, <1>r, <1>d, <2>3 DEF QueueDeliveries, TrailTellsTruth, OkIsAudited, IInv, TypeOK
  <2> QED BY <1>t, <2>4, <2>5, <2>6, <2>7, <2>8 DEF IInv
<1>e. CASE AcknowledgeOne(c)
  <2>1. body[c].op = "acknowledge"
    BY <1>e DEF AcknowledgeOne
  <2>2. PICK d \in delivery : acked' = acked \cup {<<c, d[2]>>}
    BY <1>e DEF AcknowledgeOne
  <2>3. TypeOK'
    BY <1>0, <1>e DEF AcknowledgeOne, TypeOK
  <2>4. Progress'
    <3>1. <<c, d[2]>> \in acked' /\ <<c, d[2]>>[1] = c
      BY <2>2
    <3> QED BY <1>0, <1>r, <1>e, <2>1, <2>2, <3>1 DEF AcknowledgeOne, Progress, IInv, TypeOK
  <2>5. DeliveriesOfIssued'
    BY <1>e, <2>2 DEF AcknowledgeOne, DeliveriesOfIssued, IInv
  <2>6. QueuedOnce' /\ TrailTellsTruth' /\ OkIsAudited'
    BY <1>0, <1>r, <1>e, <2>2
       DEF AcknowledgeOne, QueuedOnce, TrailTellsTruth, OkIsAudited, IInv, TypeOK
  <2> QED BY <1>t, <2>3, <2>4, <2>5, <2>6 DEF IInv
<1>f. CASE ChangeMatter(c)
  <2>1. body[c].op = "change" /\ UNCHANGED <<alert, delivery, acked, trail>>
    BY <1>f DEF ChangeMatter
  <2>2. TypeOK'
    <3>1. matter' \in [Task \cup Event -> Value \cup {Undecided}]
      BY <1>0, <1>f, BodyKinds DEF ChangeMatter, TypeOK
    <3> QED BY <1>0, <1>f, <3>1 DEF ChangeMatter, TypeOK
  <2>3. Progress'
    BY <1>0, <1>r, <1>f, <2>1 DEF ChangeMatter, Progress, IInv, TypeOK
  <2>4. OkIsAudited'
    BY <1>0, <1>f, <2>1 DEF ChangeMatter, OkIsAudited, IInv, TypeOK
  <2>5. QueuedOnce' /\ TrailTellsTruth' /\ DeliveriesOfIssued'
    BY <1>0, <1>r, <2>1 DEF QueuedOnce, TrailTellsTruth, DeliveriesOfIssued, IInv, TypeOK
  <2> QED BY <1>t, <2>2, <2>3, <2>4, <2>5 DEF IInv
<1>g. CASE WriteAudit(c)
  <2>1. UNCHANGED <<alert, matter, delivery, acked>> /\ trail' = trail \cup {c}
    BY <1>g DEF WriteAudit
  <2>2. TypeOK' /\ Progress' /\ OkIsAudited'
    BY <1>0, <1>r, <1>g DEF WriteAudit, TypeOK, Progress, OkIsAudited, IInv
  <2>3. TrailTellsTruth'
    BY <1>0, <1>r, <1>g, <2>1 DEF WriteAudit, Progress, TrailTellsTruth, IInv, TypeOK
  <2>4. QueuedOnce' /\ DeliveriesOfIssued'
    BY <2>1 DEF QueuedOnce, DeliveriesOfIssued, IInv
  <2> QED BY <1>t, <2>2, <2>3, <2>4 DEF IInv
<1>h. CASE AcknowledgeMany(c) \/ NotFound(c) \/ Abort(c) \/ DeliveriesConflict(c)
  <2>1. /\ UNCHANGED rows
        /\ \E kind \in {"notFound", "error"} : Reply(c, kind)
    BY <1>h DEF AcknowledgeMany, NotFound, Abort, DeliveriesConflict
  <2>2. TypeOK' /\ Progress' /\ OkIsAudited'
    BY <1>0, <1>r, <2>1 DEF TypeOK, Progress, OkIsAudited, IInv
  <2>3. QueuedOnce' /\ DeliveriesOfIssued' /\ TrailTellsTruth'
    BY <1>0, <1>r, <2>1 DEF QueuedOnce, DeliveriesOfIssued, TrailTellsTruth, IInv, TypeOK
  <2> QED BY <1>t, <2>2, <2>3 DEF IInv
<1> QED BY <1>a, <1>b, <1>c, <1>d, <1>e, <1>f, <1>g, <1>h DEF Step

LEMMA StutterHolds == IInv /\ UNCHANGED vars => IInv'
  BY DEF vars, IInv, TypeOK, Progress, QueuedOnce, DeliveriesOfIssued,
         TrailTellsTruth, OkIsAudited, IssuedIsTold, RowsOf

LEMMA Inductive == Spec => []IInv
<1>1. IInv /\ [Next]_vars => IInv'
  BY StepHolds, StutterHolds DEF Next
<1> QED BY InitHolds, <1>1, PTL DEF Spec

\* The variables always have their types.
THEOREM TypeCorrect == Spec => []TypeOK
<1>1. IInv => TypeOK
  BY DEF IInv
<1> QED BY <1>1, Inductive, PTL

\* Whatever commands overlap, stop and are repeated, a recipient is queued at
\* most once per alert and channel.
THEOREM NeverQueuedTwice == Spec => []QueuedOnce
<1>1. IInv => QueuedOnce
  BY DEF IInv
<1> QED BY <1>1, Inductive, PTL

\* Deliveries and acknowledgements belong to alerts that read ISSUED.
THEOREM DeliveriesFollowIssue == Spec => []DeliveriesOfIssued
<1>1. IInv => DeliveriesOfIssued
  BY DEF IInv
<1> QED BY <1>1, Inductive, PTL

\* The audit trail is true.
THEOREM TrailIsTrue == Spec => []TrailTellsTruth
<1>1. IInv => TrailTellsTruth
  BY DEF IInv
<1> QED BY <1>1, Inductive, PTL

\* It is complete for what was answered 200.
THEOREM TrailIsComplete == Spec => []OkIsAudited
<1>1. IInv => OkIsAudited
  BY DEF IInv
<1> QED BY <1>1, Inductive, PTL

\* An alert is ISSUED without recipients only while its issue is at the second
\* statement or was answered an error.
THEOREM IssuedAlertsAreTold == Spec => []IssuedIsTold
<1>1. IInv => IssuedIsTold
  BY DEF IInv
<1> QED BY <1>1, Inductive, PTL
================================================================================
