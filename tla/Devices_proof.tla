----------------------------- MODULE Devices_proof -----------------------------
(***************************************************************************)
(* Proofs about devices, for any number of devices, persons, events,       *)
(* routes, reports and requests.  First about DeviceOnboarding: why a      *)
(* revoked or expired credential and a released assignment never activate  *)
(* again.  Then about DeviceReports, where onboarding goes on around the   *)
(* reports: why no device and no person is ever reported for without       *)
(* authority.  The second part stands on the first: each step of a report  *)
(* is a stuttering step of onboarding, and nothing onboarding released     *)
(* comes back.                                                             *)
(***************************************************************************)
EXTENDS DeviceReports, TLAPS

------------------------------------------------------------------------------
(* Onboarding: the invariant.                                               *)

Unit(h) == CredentialAsset[job[h].cred]

\* What a job relies on.  What died stays dead (revocation, expiry by now and
\* release are never undone), and each await of an activation has established
\* what the later ones build on.
Relies(j) ==
    j.op \in Device =>
        /\ credential[j.cred] # NoOne
        /\ j.cred \in j.gone => credential[j.cred] = "REVOKED" \/ j.lapsed
        /\ \A g \in Assignment : g \in j.gone => assignment[g] = "released"
        /\ j.person = NoOne <=> j.op = "gateway"
        /\ j.at # "credential" => j.cred \notin j.gone
        /\ j.at \in {"assignment", "touch"} /\ j.op = "gateway" =>
             CredentialAsset[j.cred] \in Gateway
        /\ j.at = "touch" /\ j.op = "gateway" =>
             <<j.event, CredentialAsset[j.cred]>> \in deployed
        /\ j.at \in {"assignment", "touch"} => j.seen \notin Stopped
        /\ j.at = "promote" => j.op = "device" /\ j.seen = "REGISTERED"
        /\ j.op = "gateway" => j.asg = NoOne
        /\ j.at \in {"touch", "promote"} /\ j.op = "device" =>
             /\ j.asg \in Assignment
             /\ j.asg \notin j.gone
             /\ assignment[j.asg] # NoOne
             /\ AssignmentBody[j.asg] = [event |-> j.event, person |-> j.person,
                                        asset |-> CredentialAsset[j.cred]]
Reliance == \A h \in Handler : Relies(job[h])

\* A new id is not in its table yet and in no other request.
Fresh ==
    \A h \in Handler :
        /\ At(h, "issue", "insert") =>
             /\ credential[job[h].cred] = NoOne
             /\ \A k \in Handler : At(k, "issue", "insert") /\ job[k].cred = job[h].cred
                                     => k = h
        /\ At(h, "assign", "insert") =>
             /\ assignment[job[h].asg] = NoOne
             /\ \A k \in Handler : At(k, "assign", "insert") /\ job[k].asg = job[h].asg
                                     => k = h

IInv == TypeOK /\ OneActiveAssignment /\ Fresh /\ Reliance /\ TokenHasOrigin

------------------------------------------------------------------------------
LEMMA InitIInv == Init => IInv
  BY OnboardingAssumption
  DEF Init, IInv, TypeOK, OneActiveAssignment, Fresh, Reliance, Relies, At,
      TokenHasOrigin, Job, Idle, Device, NoOne, Absent

\* TypeOK, action by action.
LEMMA AdministerKeepsType ==
  ASSUME TypeOK, NEW h \in Handler, Administer(h) PROVE TypeOK'
<1> USE OnboardingAssumption DEF TypeOK, Become, Finish, Continue, Audit, AuditStatus, Free, At
<1>1. ASSUME NEW a \in Asset, RegisterAsset(h, a) PROVE TypeOK'
  BY <1>1 DEF RegisterAsset, Job, Administration, AssetStatus
<1>2. ASSUME NEW a \in Asset, NEW s \in AdminStatus, ChangeStatus(h, a, s) PROVE TypeOK'
  BY <1>2 DEF ChangeStatus, Job, Administration
<1>3. ASSUME NEW c \in Credential, IssueReadsAsset(h, c) PROVE TypeOK'
  BY <1>3 DEF IssueReadsAsset, Job, Administration
<1>4. ASSUME NEW c \in Credential, RevokeCredential(h, c) PROVE TypeOK'
  BY <1>4 DEF RevokeCredential, Job, Administration
<1>5. ASSUME NEW g \in Assignment, AssignReadsAsset(h, g) PROVE TypeOK'
  BY <1>5 DEF AssignReadsAsset, Job, Administration
<1>6. ASSUME NEW g \in Assignment, ReleaseAssignment(h, g) PROVE TypeOK'
  BY <1>6 DEF ReleaseAssignment, Job, Administration
<1>7. CASE IssueInserts(h)
  BY <1>7 DEF IssueInserts, Job, Administration
<1>8. CASE AssignInserts(h)
  BY <1>8 DEF AssignInserts, Job, Administration
<1>9. CASE WriteAudit(h)
  <2>1. job[h] \in Administration
    BY <1>9 DEF WriteAudit, Job, Activation, Idle
  <2>2. job[h].op \in {"register", "status"} =>
          job[h].asset \in Asset /\ job[h].seen \in AssetStatus
    BY <1>9, <2>1 DEF WriteAudit, Administration
  <2>3. trail' \in [Asset -> AssetStatus \cup {Absent}]
    BY <1>9, <2>2 DEF WriteAudit
  <2> QED BY <1>9, <2>3 DEF WriteAudit, Job
<1> QED BY <1>1, <1>2, <1>3, <1>4, <1>5, <1>6, <1>7, <1>8, <1>9 DEF Administer

\* Activations are told from other jobs by where they stand.
LEMMA ActivationJob ==
  ASSUME TypeOK, NEW h \in Handler,
         \/ job[h].at \in {"credential", "asset", "assignment", "touch", "promote"}
         \/ job[h].op \in Device
  PROVE  job[h] \in Activation
  BY DEF TypeOK, Job, Administration, Idle, Device, NoOne

LEMMA ActivateKeepsType ==
  ASSUME TypeOK, NEW h \in Handler, Activate(h) PROVE TypeOK'
<1> USE OnboardingAssumption DEF TypeOK, Become, Finish, Continue, Free, At
<1>b. ASSUME job[h].at \in {"credential", "asset", "assignment", "touch", "promote"}
      PROVE  job[h] \in Activation
  BY <1>b, ActivationJob
<1>c. ASSUME NEW j \in Job, job' = [job EXCEPT ![h] = j]
      PROVE  job' \in [Handler -> Job]
  BY <1>c
<1> DEFINE Steps == {"credential", "asset", "assignment", "touch", "promote"}
<1>a. \A j \in Activation, x \in Steps : [j EXCEPT !.at = x] \in Job
  BY DEF Activation, Job
<1>s. \A j \in Activation, s \in AssetStatus :
        [j EXCEPT !.at = "assignment", !.seen = s] \in Job
  BY DEF Activation, Job
<1>g. \A j \in Activation, g \in Assignment :
        [j EXCEPT !.at = "touch", !.asg = g] \in Job
  BY DEF Activation, Job
<1>1. ASSUME NEW op \in Device, NEW c \in Credential, NEW e \in Event,
             NEW p \in Person \cup {NoOne}, BeginActivation(h, op, c, e, p)
      PROVE  TypeOK'
  BY <1>1 DEF BeginActivation, Job, Activation, Dead, Device, AssetStatus
<1>2. CASE ReadCredential(h)
  <2>1. CASE Finish(h)
    BY <1>2, <2>1 DEF ReadCredential, Job
  <2>2. CASE Continue(h, "asset")
    BY <1>2, <1>a, <1>b, <2>2 DEF ReadCredential
  <2> QED BY <1>2, <2>1, <2>2 DEF ReadCredential
<1>3. CASE ReadAsset(h)
  <2>1. CASE Finish(h)
    BY <1>3, <2>1 DEF ReadAsset, Job
  <2>2. CASE ~Finish(h)
    <3>1. job[h] \in Activation /\ status[Unit(h)] \in AssetStatus
      BY <1>3, <1>b, <2>2 DEF ReadAsset, Operational, Unit, Activation
    <3>2. job' = [job EXCEPT ![h] = [job[h] EXCEPT !.at = "assignment",
                                                   !.seen = status[Unit(h)]]]
      BY <1>3, <2>2 DEF ReadAsset, Unit
    <3>3. job' \in [Handler -> Job]
      BY <1>s, <3>1, <3>2
    <3> QED BY <1>3, <3>3 DEF ReadAsset
  <2> QED BY <2>1, <2>2
<1>4. CASE ReadAssignment(h)
  <2>1. job[h] \in Activation
    BY <1>4, <1>b DEF ReadAssignment
  <2>2. job' \in [Handler -> Job]
    <3>1. CASE Finish(h)
      BY <3>1 DEF Job
    <3>2. CASE ~Finish(h)
      <4>1. PICK g \in Assignment :
              job' = [job EXCEPT ![h] = [job[h] EXCEPT !.at = "touch", !.asg = g]]
        BY <1>4, <3>2 DEF ReadAssignment, Matching
      <4> QED BY <1>g, <2>1, <4>1
    <3> QED BY <3>1, <3>2
  <2> QED BY <1>4, <2>2 DEF ReadAssignment
<1>5. CASE ReadDeployment(h)
  <2>1. CASE Finish(h)
    BY <1>5, <2>1 DEF ReadDeployment, Job
  <2>2. CASE Continue(h, "touch")
    BY <1>5, <1>a, <1>b, <2>2 DEF ReadDeployment
  <2> QED BY <1>5, <2>1, <2>2 DEF ReadDeployment
<1>t. ASSUME SignToken(h), job[h].at \in {"touch", "promote"}
      PROVE  tokens' \subseteq Token /\ job' \in [Handler -> Job]
  <2>1. job[h] \in Activation
    BY <1>t, <1>b
  <2>2. job' \in [Handler -> Job]
    BY <1>t DEF SignToken, Job
  <2> QED BY <1>t, <2>1, <2>2 DEF SignToken, Token, Activation
<1>6. CASE TouchCredential(h)
  <2>1. CASE SignToken(h)
    BY <1>6, <1>t, <2>1 DEF TouchCredential
  <2>2. CASE Continue(h, "promote") /\ UNCHANGED tokens
    BY <1>6, <1>a, <1>b, <2>2 DEF TouchCredential
  <2> QED BY <1>6, <2>1, <2>2 DEF TouchCredential
<1>7. CASE PromoteAsset(h)
  BY <1>7, <1>b, <1>t DEF PromoteAsset, AssetStatus, Activation
<1> QED BY <1>1, <1>2, <1>3, <1>4, <1>5, <1>6, <1>7 DEF Activate

LEMMA StepKeepsType == TypeOK /\ [Next]_vars => TypeOK'
<1> SUFFICES ASSUME TypeOK, [Next]_vars PROVE TypeOK'
  OBVIOUS
<1>1. ASSUME NEW h \in Handler, Abort(h) PROVE TypeOK'
  BY <1>1 DEF Abort, TypeOK, Finish, Become, Job
<1>2. ASSUME NEW e \in Event, NEW a \in Asset, DeployAsset(e, a) PROVE TypeOK'
  BY <1>2 DEF DeployAsset, TypeOK
<1>3. ASSUME NEW c \in Credential, ExpireCredential(c) PROVE TypeOK'
  BY <1>3 DEF ExpireCredential, TypeOK
<1>4. ASSUME NEW t \in tokens, ExpireToken(t) PROVE TypeOK'
  BY <1>4 DEF ExpireToken, TypeOK
<1>5. CASE UNCHANGED vars
  BY <1>5 DEF vars, TypeOK
<1> QED BY <1>1, <1>2, <1>3, <1>4, <1>5, AdministerKeepsType, ActivateKeepsType DEF Next

------------------------------------------------------------------------------
(* The other conjuncts.                                                      *)

\* Nothing dead comes back and nothing known is forgotten.
LEMMA Monotone ==
  ASSUME TypeOK, Fresh, [Next]_vars
  PROVE  /\ \A c \in Credential :
              /\ credential[c] = "REVOKED" => credential'[c] = "REVOKED"
              /\ credential[c] # NoOne => credential'[c] # NoOne
         /\ \A g \in Assignment :
              /\ assignment[g] = "released" => assignment'[g] = "released"
              /\ assignment[g] # NoOne => assignment'[g] # NoOne
         /\ deployed \subseteq deployed'
<1> DEFINE Grows == /\ \A c \in Credential :
                         /\ credential[c] = "REVOKED" => credential'[c] = "REVOKED"
                         /\ credential[c] # NoOne => credential'[c] # NoOne
                    /\ \A g \in Assignment :
                         /\ assignment[g] = "released" => assignment'[g] = "released"
                         /\ assignment[g] # NoOne => assignment'[g] # NoOne
                    /\ deployed \subseteq deployed'
<1>u. ASSUME UNCHANGED <<credential, assignment>>, deployed \subseteq deployed' PROVE Grows
  BY <1>u
<1> USE DEF NoOne
<1>1. ASSUME NEW h \in Handler, IssueInserts(h) PROVE Grows
  BY <1>1 DEF IssueInserts, TypeOK, Fresh
<1>2. ASSUME NEW h \in Handler, AssignInserts(h) PROVE Grows
  BY <1>2 DEF AssignInserts, TypeOK, Fresh
<1>3. ASSUME NEW h \in Handler, NEW c \in Credential, RevokeCredential(h, c) PROVE Grows
  BY <1>3 DEF RevokeCredential, TypeOK
<1>4. ASSUME NEW h \in Handler, NEW g \in Assignment, ReleaseAssignment(h, g) PROVE Grows
  BY <1>4 DEF ReleaseAssignment, TypeOK
<1>5. ASSUME NEW e \in Event, NEW a \in Asset, DeployAsset(e, a) PROVE Grows
  BY <1>5 DEF DeployAsset
<1>6. ASSUME NEW h \in Handler,
             \/ \E a \in Asset : RegisterAsset(h, a)
             \/ \E a \in Asset, s \in AdminStatus : ChangeStatus(h, a, s)
             \/ \E c \in Credential : IssueReadsAsset(h, c)
             \/ \E g \in Assignment : AssignReadsAsset(h, g)
             \/ WriteAudit(h) \/ Activate(h) \/ Abort(h)
      PROVE  Grows
  BY <1>6, <1>u
  DEF RegisterAsset, ChangeStatus, IssueReadsAsset, AssignReadsAsset, WriteAudit,
      Activate, BeginActivation, ReadCredential, ReadAsset, ReadAssignment,
      ReadDeployment, TouchCredential, PromoteAsset, Abort
<1>7. ASSUME (\E c \in Credential : ExpireCredential(c)) \/ (\E t \in tokens : ExpireToken(t))
             \/ UNCHANGED vars
      PROVE  Grows
  BY <1>7, <1>u DEF ExpireCredential, ExpireToken, vars
<1> QED BY <1>1, <1>2, <1>3, <1>4, <1>5, <1>6, <1>7 DEF Next, Administer

LEMMA StepKeepsOneActiveAssignment ==
  ASSUME TypeOK, OneActiveAssignment, [Next]_vars PROVE OneActiveAssignment'
<1>1. ASSUME NEW h \in Handler, AssignInserts(h) PROVE OneActiveAssignment'
  <2>1. CASE UNCHANGED assignment
    BY <2>1 DEF OneActiveAssignment
  <2>2. CASE /\ Fits(job[h].asg)
             /\ assignment' = [assignment EXCEPT ![job[h].asg] = "active"]
    BY <2>2 DEF OneActiveAssignment, Fits, TypeOK
  <2> QED BY <1>1, <2>1, <2>2 DEF AssignInserts
<1>2. ASSUME NEW h \in Handler, NEW g \in Assignment, ReleaseAssignment(h, g)
      PROVE  OneActiveAssignment'
  BY <1>2 DEF ReleaseAssignment, OneActiveAssignment, TypeOK
<1>3. ASSUME UNCHANGED assignment PROVE OneActiveAssignment'
  BY <1>3 DEF OneActiveAssignment
<1> QED
  BY <1>1, <1>2, <1>3
  DEF Next, Administer, Activate, RegisterAsset, ChangeStatus, IssueReadsAsset,
      IssueInserts, RevokeCredential, AssignReadsAsset, WriteAudit, BeginActivation,
      ReadCredential, ReadAsset, ReadAssignment, ReadDeployment, TouchCredential,
      PromoteAsset, Abort, DeployAsset, ExpireCredential, ExpireToken, vars

LEMMA StepKeepsFresh == ASSUME TypeOK, Fresh, [Next]_vars PROVE Fresh'
<1> USE DEF TypeOK, NoOne, Fresh, At, Free, Become, Finish, Continue, Audit, AuditStatus, Idle
<1>j. ASSUME NEW h \in Handler, NEW j, job' = [job EXCEPT ![h] = j],
             j.at # "insert", UNCHANGED <<credential, assignment>>
      PROVE  Fresh'
  BY <1>j
<1>1. ASSUME NEW h \in Handler, NEW c \in Credential, IssueReadsAsset(h, c) PROVE Fresh'
  BY <1>1 DEF IssueReadsAsset
<1>2. ASSUME NEW h \in Handler, NEW g \in Assignment, AssignReadsAsset(h, g) PROVE Fresh'
  BY <1>2 DEF AssignReadsAsset
<1>3. ASSUME NEW h \in Handler, IssueInserts(h) PROVE Fresh'
  BY <1>3 DEF IssueInserts
<1>4. ASSUME NEW h \in Handler, AssignInserts(h) PROVE Fresh'
  <2>1. CASE Fits(job[h].asg)
    <3>1. /\ assignment' = [assignment EXCEPT ![job[h].asg] = "active"]
          /\ job' = [job EXCEPT ![h] = [op |-> "assign", at |-> "audit"]]
          /\ UNCHANGED credential
      BY <1>4, <2>1 DEF AssignInserts
    <3>2. job[h].op = "assign" /\ job[h].at = "insert"
      BY <1>4 DEF AssignInserts
    <3>3. \A k \in Handler : k # h => job'[k] = job[k]
      BY <3>1
    <3>4. \A k \in Handler : k # h /\ At(k, "assign", "insert")
                             => assignment'[job[k].asg] = assignment[job[k].asg]
      BY <3>1, <3>2
    <3> QED BY <3>1, <3>3, <3>4
  <2>2. CASE ~Fits(job[h].asg)
    BY <1>4, <2>2, <1>j DEF AssignInserts
  <2> QED BY <2>1, <2>2
<1>5. ASSUME NEW h \in Handler, NEW c \in Credential, RevokeCredential(h, c) PROVE Fresh'
  BY <1>5 DEF RevokeCredential
<1>6. ASSUME NEW h \in Handler, NEW g \in Assignment, ReleaseAssignment(h, g) PROVE Fresh'
  BY <1>6 DEF ReleaseAssignment
<1>7. ASSUME NEW h \in Handler,
             \/ \E a \in Asset : RegisterAsset(h, a)
             \/ \E a \in Asset, s \in AdminStatus : ChangeStatus(h, a, s)
             \/ WriteAudit(h) \/ Abort(h)
      PROVE  Fresh'
  BY <1>7, <1>j DEF RegisterAsset, ChangeStatus, WriteAudit, Abort
<1>8. ASSUME NEW h \in Handler, Activate(h) PROVE Fresh'
  <2>1. job'[h].at # "insert" /\ \A k \in Handler : k # h => job'[k] = job[k]
    <3>1. job[h].at \in {"credential", "asset", "assignment", "touch", "promote"}
            => job[h] \in Activation
      BY ActivationJob
    <3>2. CASE \E op \in Device, c \in Credential, e \in Event, p \in Person \cup {NoOne} :
                 BeginActivation(h, op, c, e, p)
      BY <3>2 DEF BeginActivation
    <3>3. CASE ReadCredential(h) \/ ReadDeployment(h)
      BY <3>1, <3>3 DEF ReadCredential, ReadDeployment, Activation
    <3>4. CASE ReadAsset(h) \/ ReadAssignment(h)
      <4>1. job[h] \in Activation
        BY <3>1, <3>4 DEF ReadAsset, ReadAssignment
      <4>2. CASE Finish(h)
        BY <4>2
      <4>3. CASE \E s : job' = [job EXCEPT ![h] = [job[h] EXCEPT !.at = "assignment",
                                                            !.seen = s]]
        BY <4>1, <4>3 DEF Activation
      <4>4. CASE \E g : job' = [job EXCEPT ![h] = [job[h] EXCEPT !.at = "touch", !.asg = g]]
        BY <4>1, <4>4 DEF Activation
      <4> QED BY <3>4, <4>2, <4>3, <4>4 DEF ReadAsset, ReadAssignment
    <3>5. CASE TouchCredential(h) \/ PromoteAsset(h)
      BY <3>1, <3>5 DEF TouchCredential, PromoteAsset, SignToken, Activation
    <3> QED BY <1>8, <3>2, <3>3, <3>4, <3>5 DEF Activate
  <2>2. UNCHANGED <<credential, assignment>>
    BY <1>8 DEF Activate, BeginActivation, ReadCredential, ReadAsset, ReadAssignment,
          ReadDeployment, TouchCredential, PromoteAsset
  <2> QED BY <2>1, <2>2
<1>9. ASSUME UNCHANGED <<job, credential, assignment>> PROVE Fresh'
  BY <1>9
<1> QED
  BY <1>1, <1>2, <1>3, <1>4, <1>5, <1>6, <1>7, <1>8, <1>9
  DEF Next, Administer, DeployAsset, ExpireCredential, ExpireToken, vars

\* A job that goes on unchanged still has what it relies on.
LEMMA ReliesStays ==
  ASSUME TypeOK, Fresh, [Next]_vars, NEW j \in Job, Relies(j) PROVE Relies(j)'
<1>1. CASE j.op \notin Device
  BY <1>1 DEF Relies
<1>2. CASE j.op \in Device
  <2>1. j \in Activation
    BY <1>2 DEF Job, Administration, Idle, Device, NoOne
  <2>2. j.cred \in Credential
    BY <2>1 DEF Activation
  <2> QED BY <1>2, <2>2, Monotone DEF Relies
<1> QED BY <1>1, <1>2

\* Each await of an activation establishes what it hands on.
LEMMA ActivateEstablishes ==
  ASSUME IInv, NEW h \in Handler, Activate(h) PROVE Relies(job[h])'
<1> USE OnboardingAssumption DEF IInv, TypeOK, Become, Finish, Continue, Free, At
<1>b. ASSUME job[h].at \in {"credential", "asset", "assignment", "touch", "promote"}
      PROVE  job[h] \in Activation
  BY <1>b, ActivationJob
<1>r. Relies(job[h])
  BY DEF Reliance
<1>i. ASSUME job'[h] = Idle PROVE Relies(job[h])'
  BY <1>i DEF Relies, Idle, Device, NoOne
<1>1. ASSUME NEW op \in Device, NEW c \in Credential, NEW e \in Event,
             NEW p \in Person \cup {NoOne}, BeginActivation(h, op, c, e, p)
      PROVE  Relies(job[h])'
  BY <1>1 DEF BeginActivation, Relies, Dead, Device, NoOne
<1>2. CASE ReadCredential(h)
  BY <1>2, <1>b, <1>r, <1>i DEF ReadCredential, Relies, Activation
<1>3. CASE ReadAsset(h)
  <2>1. CASE Finish(h)
    BY <2>1, <1>i
  <2>2. CASE ~Finish(h)
    <3>1. /\ job[h] \in Activation
          /\ job[h].op = "gateway" => CredentialAsset[job[h].cred] \in Gateway
          /\ job[h].at = "asset"
          /\ UNCHANGED <<credential, assignment, deployed>>
      BY <1>3, <1>b, <2>2 DEF ReadAsset
    <3>2. PICK s : /\ job' = [job EXCEPT ![h] = [job[h] EXCEPT !.at = "assignment", !.seen = s]]
                   /\ s \notin Stopped
      BY <1>3, <2>2 DEF ReadAsset, Operational
    <3> QED BY <1>r, <3>1, <3>2 DEF Relies, Activation
  <2> QED BY <2>1, <2>2
<1>4. CASE ReadAssignment(h)
  <2>1. CASE Finish(h)
    BY <2>1, <1>i
  <2>2. CASE ~Finish(h)
    <3>1. PICK g \in Matching(h) :
            job' = [job EXCEPT ![h] = [job[h] EXCEPT !.at = "touch", !.asg = g]]
      BY <1>4, <2>2 DEF ReadAssignment
    <3>2. /\ g \in Assignment /\ assignment[g] = "active"
          /\ AssignmentBody[g] = Wanted(h)
      BY DEF Matching
    <3>3. /\ job[h] \in Activation
          /\ job[h].op = "device"
          /\ job[h].at = "assignment"
          /\ UNCHANGED <<credential, assignment, deployed>>
      BY <1>4, <1>b DEF ReadAssignment
    <3>4. g \notin job[h].gone
      BY <1>r, <3>2, <3>3 DEF Relies, Device
    <3> QED BY <1>r, <3>1, <3>2, <3>3, <3>4 DEF Relies, Activation, Wanted, NoOne
  <2> QED BY <2>1, <2>2
<1>5. CASE ReadDeployment(h)
  BY <1>5, <1>b, <1>r, <1>i DEF ReadDeployment, Relies, Activation
<1>6. CASE TouchCredential(h)
  BY <1>6, <1>b, <1>r, <1>i DEF TouchCredential, SignToken, Relies, Activation, Device, AssetStatus, Stopped
<1>7. CASE PromoteAsset(h)
  BY <1>7, <1>i DEF PromoteAsset, SignToken
<1> QED BY <1>1, <1>2, <1>3, <1>4, <1>5, <1>6, <1>7 DEF Activate

LEMMA StepKeepsReliance == ASSUME IInv, [Next]_vars PROVE Reliance'
<1> SUFFICES ASSUME NEW k \in Handler PROVE Relies(job[k])'
  BY DEF Reliance
<1>k. job'[k] = job[k] => Relies(job[k])'
  BY ReliesStays DEF IInv, TypeOK, Reliance
<1>o. ASSUME job'[k].op \notin Device PROVE Relies(job[k])'
  BY <1>o DEF Relies
<1> USE DEF IInv, TypeOK, Become, Finish, Audit, AuditStatus, Idle, Device, NoOne
<1>1. ASSUME NEW h \in Handler, Activate(h) PROVE Relies(job[k])'
  <2>1. CASE k = h
    BY <1>1, <2>1, ActivateEstablishes
  <2>2. CASE k # h
    BY <1>1, <2>2, <1>k
    DEF Activate, BeginActivation, ReadCredential, ReadAsset, ReadAssignment,
        ReadDeployment, TouchCredential, PromoteAsset, SignToken, Continue
  <2> QED BY <2>1, <2>2
<1>2. ASSUME NEW h \in Handler, Administer(h) \/ Abort(h) PROVE Relies(job[k])'
  <2>1. CASE k = h
    BY <1>2, <2>1, <1>o
    DEF Administer, RegisterAsset, ChangeStatus, IssueReadsAsset, IssueInserts,
        RevokeCredential, AssignReadsAsset, AssignInserts, ReleaseAssignment,
        WriteAudit, Abort
  <2>2. CASE k # h
    BY <1>2, <2>2, <1>k
    DEF Administer, RegisterAsset, ChangeStatus, IssueReadsAsset, IssueInserts,
        RevokeCredential, AssignReadsAsset, AssignInserts, ReleaseAssignment,
        WriteAudit, Abort
  <2> QED BY <2>1, <2>2
<1>3. CASE UNCHANGED job
  BY <1>3, <1>k
<1> QED BY <1>1, <1>2, <1>3 DEF Next, DeployAsset, ExpireCredential, ExpireToken, vars

LEMMA StepKeepsTokenHasOrigin == ASSUME IInv, [Next]_vars PROVE TokenHasOrigin'
<1> SUFFICES ASSUME NEW t \in tokens'
             PROVE  /\ \E c \in Credential : /\ CredentialAsset[c] = t.asset
                                             /\ credential'[c] # NoOne
                    /\ IF t.person = NoOne
                       THEN <<t.event, t.asset>> \in deployed' /\ t.asset \in Gateway
                       ELSE \E g \in Assignment : assignment'[g] # NoOne /\ AssignmentBody[g] = t
  BY DEF TokenHasOrigin
<1>1. CASE t \in tokens
  BY <1>1, Monotone DEF IInv, TokenHasOrigin
<1>2. ASSUME NEW h \in Handler, SignToken(h), job[h].at \in {"touch", "promote"},
             UNCHANGED <<credential, assignment, deployed>>, t \notin tokens
      PROVE  /\ \E c \in Credential : /\ CredentialAsset[c] = t.asset
                                      /\ credential'[c] # NoOne
             /\ IF t.person = NoOne
                THEN <<t.event, t.asset>> \in deployed' /\ t.asset \in Gateway
                ELSE \E g \in Assignment : assignment'[g] # NoOne /\ AssignmentBody[g] = t
  <2>1. job[h] \in Activation /\ Relies(job[h])
    BY <1>2, ActivationJob DEF IInv, Reliance
  <2>2. t = [asset |-> CredentialAsset[job[h].cred], event |-> job[h].event,
             person |-> job[h].person]
    BY <1>2 DEF SignToken
  <2>3. job[h].cred \in Credential /\ credential[job[h].cred] # NoOne
    BY <2>1 DEF Activation, Relies
  <2>4. CASE job[h].op = "gateway"
    BY <1>2, <2>1, <2>2, <2>3, <2>4 DEF Relies, Device
  <2>5. CASE job[h].op = "device"
    <3>1. /\ t.person # NoOne
          /\ job[h].asg \in Assignment /\ assignment[job[h].asg] # NoOne
          /\ AssignmentBody[job[h].asg] = [event |-> job[h].event,
                person |-> job[h].person, asset |-> CredentialAsset[job[h].cred]]
      BY <1>2, <2>1, <2>2, <2>5 DEF Relies, Device
    <3>2. AssignmentBody[job[h].asg] = t
      BY <2>2, <3>1
    <3> QED BY <1>2, <2>2, <2>3, <3>1, <3>2
  <2> QED BY <2>1, <2>4, <2>5 DEF Activation, Device
<1>3. CASE t \notin tokens
  <2>1. \E h \in Handler : /\ SignToken(h) /\ job[h].at \in {"touch", "promote"}
                           /\ UNCHANGED <<credential, assignment, deployed>>
    BY <1>3 DEF Next, Administer, Activate, RegisterAsset, ChangeStatus, IssueReadsAsset,
       IssueInserts, RevokeCredential, AssignReadsAsset, AssignInserts, ReleaseAssignment,
       WriteAudit, BeginActivation, ReadCredential, ReadAsset, ReadAssignment,
       ReadDeployment, TouchCredential, PromoteAsset, Abort, DeployAsset,
       ExpireCredential, ExpireToken, vars
  <2> QED BY <1>2, <1>3, <2>1
<1> QED BY <1>1, <1>3

LEMMA StepKeepsIInv == IInv /\ [Next]_vars => IInv'
  BY StepKeepsType, StepKeepsOneActiveAssignment, StepKeepsFresh, StepKeepsReliance,
     StepKeepsTokenHasOrigin DEF IInv

LEMMA Invariance == Spec => []IInv
  BY InitIInv, StepKeepsIInv, PTL DEF Spec

------------------------------------------------------------------------------
(* The theorems about onboarding.                                            *)

\* The tables and the jobs always have the types the code gives them.
THEOREM TypeCorrect == Spec => []TypeOK
<1>1. IInv => TypeOK
  BY DEF IInv
<1> QED BY <1>1, Invariance, PTL

\* Within an event no person and no device ever has two active assignments.
THEOREM OneAssignment == Spec => []OneActiveAssignment
<1>1. IInv => OneActiveAssignment
  BY DEF IInv
<1> QED BY <1>1, Invariance, PTL

\* No activation that arrived after revocation, expiry or release reaches the
\* token, for any number of devices, credentials and concurrent requests.
THEOREM NeverReactivated == Spec => []NoReactivation
<1>1. IInv => NoReactivation
  <2> SUFFICES ASSUME IInv, NEW h \in Handler, job[h].op \in Device,
                      job[h].at \in {"touch", "promote"}
               PROVE  job[h].cred \notin job[h].gone /\ job[h].asg \notin job[h].gone
    BY DEF NoReactivation
  <2>1. job[h] \in Activation /\ Relies(job[h])
    BY ActivationJob DEF IInv, Reliance
  <2>2. NoOne \notin job[h].gone
    BY <2>1, OnboardingAssumption DEF Activation
  <2> QED BY <2>1, <2>2 DEF Relies, Device
<1> QED BY <1>1, Invariance, PTL

\* Only an administrator, or an activation that had read REGISTERED, takes a
\* device out of a stopped state, however many of them run at once.
THEOREM OnlyTheRaceRevives == Spec => RevivedOnlyByRace
<1> DEFINE Revived ==
      \A a \in Asset :
         status[a] \in Stopped /\ status'[a] # status[a]
         => \E h \in Handler :
              \/ job[h] = Idle /\ job'[h].op = "status"
              \/ /\ job[h].at = "promote" /\ job[h].seen = "REGISTERED"
                 /\ CredentialAsset[job[h].cred] = a
<1>1. IInv /\ [Next]_vars => [Revived]_vars
  <2> SUFFICES ASSUME IInv, Next, NEW a \in Asset, status[a] \in Stopped,
                      status'[a] # status[a]
               PROVE  \E h \in Handler :
                        \/ job[h] = Idle /\ job'[h].op = "status"
                        \/ /\ job[h].at = "promote" /\ job[h].seen = "REGISTERED"
                           /\ CredentialAsset[job[h].cred] = a
    OBVIOUS
  <2>1. \E h \in Handler :
          \/ \E b \in Asset : RegisterAsset(h, b)
          \/ \E b \in Asset, s \in AdminStatus : ChangeStatus(h, b, s)
          \/ PromoteAsset(h)
    BY DEF Next, Administer, Activate, IssueReadsAsset, IssueInserts, RevokeCredential,
       AssignReadsAsset, AssignInserts, ReleaseAssignment, WriteAudit, BeginActivation,
       ReadCredential, ReadAsset, ReadAssignment, ReadDeployment, TouchCredential,
       Abort, DeployAsset, ExpireCredential, ExpireToken
  <2>2. ASSUME NEW h \in Handler, NEW b \in Asset, RegisterAsset(h, b) PROVE FALSE
    BY <2>2 DEF RegisterAsset, IInv, TypeOK, Absent, Stopped
  <2>3. ASSUME NEW h \in Handler, NEW b \in Asset, NEW s \in AdminStatus, ChangeStatus(h, b, s)
        PROVE  job[h] = Idle /\ job'[h].op = "status"
    BY <2>3 DEF ChangeStatus, Free, AuditStatus, Become, IInv, TypeOK
  <2>4. ASSUME NEW h \in Handler, PromoteAsset(h)
        PROVE  /\ job[h].at = "promote" /\ job[h].seen = "REGISTERED"
               /\ CredentialAsset[job[h].cred] = a
    <3>1. job[h] \in Activation /\ Relies(job[h]) /\ job[h].at = "promote"
      BY <2>4, ActivationJob DEF IInv, Reliance, PromoteAsset
    <3>2. job[h].seen = "REGISTERED"
      BY <3>1 DEF Relies, Activation
    <3>3. CredentialAsset[job[h].cred] = a
      BY <2>4 DEF PromoteAsset, IInv, TypeOK
    <3> QED BY <3>1, <3>2, <3>3
  <2> QED BY <2>1, <2>2, <2>3, <2>4
<1> QED BY <1>1, Invariance, PTL DEF Spec, RevivedOnlyByRace

\* Every token ever signed stands for an assignment or a deployment.
THEOREM TokensHaveOrigin == Spec => []TokenHasOrigin
<1>1. IInv => TokenHasOrigin
  BY DEF IInv
<1> QED BY <1>1, Invariance, PTL

------------------------------------------------------------------------------
(* Reports: the invariant.                                                  *)

\* What a position was assigned to, and what a proxy report goes over.
AssignedTo(g, env) ==
    /\ g \in Assignment /\ assignment[g] # NoOne
    /\ AssignmentBody[g] = [event |-> env.event, person |-> env.person,
                            asset |-> env.source]
RoutedOver(u, rep) ==
    /\ u \in Route /\ route[u] # NoOne
    /\ RouteBody[u] = [event |-> rep.env.event, reporter |-> Effective(rep),
                       source |-> rep.env.source]

\* What each await of a report has established for the later ones.  The check
\* of the route is the fourth of every kind, that of the assignment the seventh
\* of a position.
Backed(rep) ==
    /\ ClaimsMatch(rep.kind, rep.claims, rep.env)
    /\ \A u \in Route : u \in rep.gone => route[u] = "ended"
    /\ \A g \in Assignment : g \in rep.gone => assignment[g] = "released"
    /\ rep.via # NoOne => rep.via \notin rep.gone
    /\ rep.asg # NoOne => rep.asg \notin rep.gone
    /\ rep.at = 8 /\ rep.kind = "position" => AssignedTo(rep.asg, rep.env)
    /\ rep.at >= 5 /\ Vouched(rep) /\ Effective(rep) # rep.env.source =>
         RoutedOver(rep.via, rep)
AllBacked == \A r \in Reporter : report[r] # NoReport => Backed(report[r])

RInv == IInv /\ ReportsTypeOK /\ AllBacked /\ PositionHasAssignment /\ TokenConfined

------------------------------------------------------------------------------
\* Where each check stands in the sequence of its kind.
LEMMA WhereChecksStand ==
  ASSUME ReportsTypeOK, NEW r \in Reporter, report[r] # NoReport
  PROVE  /\ report[r] \in Report
         /\ \A check \in {"reporter", "authority", "source", "storeReporter", "storeSource"} :
              Checking(r, check) => report[r].at \in 1..6 /\ report[r].at # 4
         /\ Checking(r, "route") => report[r].at = 4
         /\ Checking(r, "assignment") => report[r].at = 7 /\ report[r].kind = "position"
         /\ Checking(r, "insert") =>
              report[r].at >= 5 /\ (report[r].kind = "position" => report[r].at = 8)
<1>1. report[r] \in Report
  BY DEF ReportsTypeOK
<1>2. report[r].kind \in Kind /\ report[r].at \in 1..8
  BY <1>1 DEF Report
<1>3. CASE report[r].kind = "position"
  BY <1>1, <1>2, <1>3 DEF Checking, Checks
<1>4. CASE report[r].kind = "status"
  BY <1>1, <1>2, <1>4 DEF Checking, Checks
<1>5. CASE report[r].kind = "batch"
  BY <1>1, <1>2, <1>5 DEF Checking, Checks
<1> QED BY <1>2, <1>3, <1>4, <1>5 DEF Kind

\* Every step is a step, or a stuttering step, of onboarding.
LEMMA OnboardingStep == [ReportsNext]_allVars => [Next]_vars
  BY DEF ReportsNext, ReportStep, allVars, CreateRoute, EndRoute, BeginReport, BeginItem,
         Begin, CheckAsset, CheckRoute, CheckAssignment, InsertRow, RejectReport

\* An ended route stays ended and a route once made stays known.
LEMMA RoutesLast ==
  ASSUME ReportsTypeOK, [ReportsNext]_allVars, NEW u \in Route
  PROVE  /\ route[u] = "ended" => route'[u] = "ended"
         /\ route[u] # NoOne => route'[u] # NoOne
<1> USE DEF NoOne
<1>1. CASE \E v \in Route : CreateRoute(v) \/ EndRoute(v)
  BY <1>1 DEF CreateRoute, EndRoute, ReportsTypeOK
<1>2. CASE UNCHANGED route
  BY <1>2
<1> QED
  BY <1>1, <1>2
  DEF ReportsNext, ReportStep, allVars, reportVars, BeginReport, BeginItem, Begin,
      CheckAsset, CheckRoute, CheckAssignment, InsertRow, RejectReport

\* What a report relies on stays while it goes on.
LEMMA BackingStays ==
  ASSUME RInv, [ReportsNext]_allVars, NEW rep \in Report, Backed(rep) PROVE Backed(rep)'
<1>1. /\ \A g \in Assignment : /\ assignment[g] = "released" => assignment'[g] = "released"
                               /\ assignment[g] # NoOne => assignment'[g] # NoOne
      /\ \A u \in Route : /\ route[u] = "ended" => route'[u] = "ended"
                          /\ route[u] # NoOne => route'[u] # NoOne
  BY OnboardingStep, Monotone, RoutesLast DEF RInv, IInv
<1> QED BY <1>1 DEF Backed, AssignedTo, RoutedOver, ClaimsMatch, OwnDevice, Vouched,
               Effective, EffectiveOf, NoClaims, NoOne

------------------------------------------------------------------------------
(* The steps of a report.                                                   *)

\* A report that has passed a check.
Passed(rep) == [rep EXCEPT !.at = @ + 1]

LEMMA BeginBacked ==
  ASSUME RInv, NEW r \in Reporter, NEW kind \in Kind, NEW claims \in tokens \cup {NoClaims},
         NEW env \in Envelope, Begin(r, kind, claims, env)
  PROVE  \E new \in Report : report' = [report EXCEPT ![r] = new] /\ Backed(new)
<1>1. PICK new : /\ new = [at |-> 1, kind |-> kind, claims |-> claims, env |-> env,
                           via |-> NoOne, asg |-> NoOne, gone |-> GoneNow]
                 /\ report' = [report EXCEPT ![r] = new]
  BY DEF Begin
<1>2. claims \in Claims
  BY DEF RInv, IInv, TypeOK, Claims
<1>3. GoneNow \in SUBSET (Route \cup Assignment)
  BY DEF GoneNow
<1>4. new \in Report
  BY <1>1, <1>2, <1>3 DEF Report
<1>5. ClaimsMatch(kind, claims, env)
  BY DEF Begin
<1>6. /\ \A u \in Route : u \in GoneNow => route[u] = "ended"
      /\ \A g \in Assignment : g \in GoneNow => assignment[g] = "released"
  BY RouteAssumption DEF GoneNow
<1>7. Backed(new)
  BY <1>1, <1>5, <1>6 DEF Backed
<1> QED BY <1>1, <1>4, <1>7

\* A check that relies on no row hands on what the earlier ones established.
LEMMA PassedBacked ==
  ASSUME RInv, NEW r \in Reporter, report[r] \in Report, Pass(r), report[r].at \in 1..6,
         report[r].at = 4 => ~(Vouched(report[r]) /\ Effective(report[r]) # report[r].env.source)
  PROVE  \E new \in Report : report' = [report EXCEPT ![r] = new] /\ Backed(new)
<1>1. PICK new : /\ new = [report[r] EXCEPT !.at = @ + 1]
                 /\ report' = [report EXCEPT ![r] = new]
  BY DEF Pass
<1>2. /\ new.at = report[r].at + 1 /\ new.kind = report[r].kind
      /\ new.claims = report[r].claims /\ new.env = report[r].env
      /\ new.via = report[r].via /\ new.asg = report[r].asg /\ new.gone = report[r].gone
      /\ new \in Report
  BY <1>1 DEF Report
<1>3. Backed(report[r])
  BY DEF RInv, AllBacked, Report, NoReport
<1>4. Vouched(new) = Vouched(report[r]) /\ Effective(new) = Effective(report[r])
  BY <1>2 DEF Vouched, Effective
<1>5. Backed(new)
  BY <1>2, <1>3, <1>4 DEF Backed, RoutedOver
<1> QED BY <1>1, <1>2, <1>5

LEMMA CheckRouteBacked ==
  ASSUME RInv, NEW r \in Reporter, CheckRoute(r)
  PROVE  \E new \in Report : report' = [report EXCEPT ![r] = new] /\ Backed(new)
<1>1. report[r] # NoReport /\ report[r] \in Report /\ report[r].at = 4
  BY WhereChecksStand DEF CheckRoute, Checking, RInv
<1>2. CASE Vouched(report[r]) /\ Effective(report[r]) # report[r].env.source
  <2>1. PICK u \in ProxyRoutes(r) :
          report' = [report EXCEPT ![r].at = @ + 1, ![r].via = u]
    BY <1>2 DEF CheckRoute
  <2>2. PICK new : /\ new = [report[r] EXCEPT !.at = @ + 1, !.via = u]
                   /\ report' = [report EXCEPT ![r] = new]
    BY <2>1 DEF RInv, ReportsTypeOK
  <2>3. u \in Route /\ route[u] = "active"
    BY DEF ProxyRoutes
  <2>4. /\ new.at = 5 /\ new.kind = report[r].kind
        /\ new.claims = report[r].claims /\ new.env = report[r].env
        /\ new.via = u /\ new.asg = report[r].asg /\ new.gone = report[r].gone
        /\ new \in Report
    <3>1. PICK mid : mid = [report[r] EXCEPT !.at = @ + 1]
      OBVIOUS
    <3>2. /\ mid \in Report /\ mid.at = 5 /\ mid.kind = report[r].kind
          /\ mid.claims = report[r].claims /\ mid.env = report[r].env
          /\ mid.via = report[r].via /\ mid.asg = report[r].asg /\ mid.gone = report[r].gone
      BY <1>1, <3>1 DEF Report
    <3>3. new = [mid EXCEPT !.via = u]
      BY <2>2, <3>1, Zenon
    <3> QED BY <2>3, <3>2, <3>3 DEF Report
  <2>5. Backed(report[r])
    BY <1>1 DEF RInv, AllBacked
  <2>6. Vouched(new) = Vouched(report[r]) /\ Effective(new) = Effective(report[r])
    BY <2>4 DEF Vouched, Effective
  <2>7. RoutedOver(u, new) /\ u \notin new.gone
    BY <2>3, <2>4, <2>5, <2>6 DEF RoutedOver, ProxyRoutes, Backed, NoOne
  <2>8. Backed(new)
    BY <2>4, <2>5, <2>7 DEF Backed
  <2> QED BY <2>2, <2>4, <2>8
<1>3. CASE ~(Vouched(report[r]) /\ Effective(report[r]) # report[r].env.source)
  BY <1>1, <1>3, PassedBacked DEF CheckRoute
<1> QED BY <1>2, <1>3

LEMMA CheckAssignmentBacked ==
  ASSUME RInv, NEW r \in Reporter, CheckAssignment(r)
  PROVE  \E new \in Report : report' = [report EXCEPT ![r] = new] /\ Backed(new)
<1>1. /\ report[r] # NoReport /\ report[r] \in Report
      /\ report[r].at = 7 /\ report[r].kind = "position"
  BY WhereChecksStand DEF CheckAssignment, Checking, RInv
<1>2. PICK g \in PersonAssignments(r) :
        report' = [report EXCEPT ![r].at = @ + 1, ![r].asg = g]
  BY DEF CheckAssignment
<1>3. PICK new : /\ new = [report[r] EXCEPT !.at = @ + 1, !.asg = g]
                 /\ report' = [report EXCEPT ![r] = new]
  BY <1>2 DEF RInv, ReportsTypeOK
<1>4. g \in Assignment /\ assignment[g] = "active"
  BY DEF PersonAssignments
<1>5. /\ new.at = 8 /\ new.kind = "position"
      /\ new.claims = report[r].claims /\ new.env = report[r].env
      /\ new.via = report[r].via /\ new.asg = g /\ new.gone = report[r].gone
      /\ new \in Report
  <2>1. PICK mid : mid = [report[r] EXCEPT !.at = @ + 1]
    OBVIOUS
  <2>2. /\ mid \in Report /\ mid.at = 8 /\ mid.kind = "position"
        /\ mid.claims = report[r].claims /\ mid.env = report[r].env
        /\ mid.via = report[r].via /\ mid.asg = report[r].asg /\ mid.gone = report[r].gone
    BY <1>1, <2>1 DEF Report
  <2>3. new = [mid EXCEPT !.asg = g]
    BY <1>3, <2>1, Zenon
  <2> QED BY <1>4, <2>2, <2>3 DEF Report
<1>6. Backed(report[r])
  BY <1>1 DEF RInv, AllBacked
<1>7. Vouched(new) = Vouched(report[r]) /\ Effective(new) = Effective(report[r])
  BY <1>1, <1>5 DEF Vouched, Effective
<1>8. AssignedTo(g, new.env) /\ g \notin new.gone
  BY <1>4, <1>5, <1>6 DEF AssignedTo, PersonAssignments, Backed, NoOne
<1>9. Backed(new)
  BY <1>1, <1>5, <1>6, <1>7, <1>8 DEF Backed, RoutedOver
<1> QED BY <1>3, <1>5, <1>9

\* A report that goes on is backed after the step too.
LEMMA GoingOn ==
  ASSUME RInv, [ReportsNext]_allVars, NEW r \in Reporter,
         \E new \in Report : report' = [report EXCEPT ![r] = new] /\ Backed(new),
         UNCHANGED <<route, stored>>
  PROVE  ReportsTypeOK' /\ AllBacked'
<1>1. PICK new \in Report : report' = [report EXCEPT ![r] = new] /\ Backed(new)
  OBVIOUS
<1>2. ReportsTypeOK'
  BY <1>1 DEF RInv, ReportsTypeOK
<1>3. ASSUME NEW k \in Reporter, report'[k] # NoReport PROVE Backed(report[k])'
  <2>1. report'[k] \in Report
    BY <1>2, <1>3 DEF ReportsTypeOK
  <2>2. PICK rep \in Report : rep = report'[k] /\ Backed(rep)
    BY <1>1, <1>3, <2>1 DEF RInv, ReportsTypeOK, AllBacked
  <2>3. Backed(rep)'
    BY <2>2, BackingStays
  <2> QED BY <2>2, <2>3
<1> QED BY <1>2, <1>3 DEF AllBacked

\* A report that ends, or a step of something else, takes nothing from others.
LEMMA OthersBacked ==
  ASSUME RInv, [ReportsNext]_allVars,
         \A r \in Reporter : report'[r] = NoReport \/ report'[r] = report[r]
  PROVE  AllBacked'
<1> SUFFICES ASSUME NEW r \in Reporter, report'[r] # NoReport PROVE Backed(report[r])'
  BY DEF AllBacked
<1>1. PICK rep \in Report : rep = report'[r] /\ Backed(rep)
  BY DEF RInv, ReportsTypeOK, AllBacked
<1>2. Backed(rep)'
  BY <1>1, BackingStays
<1> QED BY <1>1, <1>2

------------------------------------------------------------------------------
(* What is stored.                                                          *)

\* Rows stay, and what they stand for is never forgotten.
LEMMA StoredKept ==
  ASSUME RInv, [ReportsNext]_allVars, UNCHANGED stored
  PROVE  PositionHasAssignment' /\ TokenConfined'
<1>1. /\ \A g \in Assignment : assignment[g] # NoOne => assignment'[g] # NoOne
      /\ \A u \in Route : route[u] # NoOne => route'[u] # NoOne
  BY OnboardingStep, Monotone, RoutesLast DEF RInv, IInv
<1>2. PositionHasAssignment'
  BY <1>1 DEF RInv, PositionHasAssignment
<1>3. TokenConfined'
  BY <1>1 DEF RInv, TokenConfined
<1> QED BY <1>2, <1>3

LEMMA InsertKeeps ==
  ASSUME RInv, NEW r \in Reporter, InsertRow(r)
  PROVE  ReportsTypeOK' /\ PositionHasAssignment' /\ TokenConfined'
<1>1. /\ report[r] # NoReport /\ report[r] \in Report /\ report[r].at >= 5
      /\ report[r].kind = "position" => report[r].at = 8
  BY WhereChecksStand DEF InsertRow, Checking, RInv
<1>2. Backed(report[r])
  BY <1>1 DEF RInv, AllBacked
<1>3. PICK row : /\ row = RowOf(report[r]) /\ stored' = stored \cup {row}
                 /\ report' = [report EXCEPT ![r] = NoReport]
                 /\ UNCHANGED <<assignment, route>>
  BY DEF InsertRow, vars
<1>4. row.kind = report[r].kind /\ row.claims = report[r].claims /\ row.env = report[r].env
  BY <1>3 DEF RowOf
<1>5. row \in [kind : Kind, claims : Claims, env : Envelope]
  BY <1>1, <1>3 DEF RowOf, Report
<1>6. ReportsTypeOK'
  BY <1>3, <1>5 DEF RInv, ReportsTypeOK
<1>7. PositionHasAssignment'
  <2>1. row.kind = "position" => AssignedTo(report[r].asg, row.env)
    BY <1>1, <1>2, <1>4 DEF Backed
  <2> QED BY <1>3, <2>1 DEF PositionHasAssignment, AssignedTo, RInv
<1>8. TokenConfined'
  <2>1. Vouched(row) = Vouched(report[r]) /\ Effective(row) = Effective(report[r])
    BY <1>4 DEF Vouched, Effective
  <2>2. ClaimsMatch(row.kind, row.claims, row.env)
    BY <1>2, <1>4 DEF Backed
  <2>3. row.claims # NoClaims =>
             /\ row.env.event = row.claims.event
             /\ Effective(row) = row.claims.asset
             /\ row.env.source = row.claims.asset
                  => NoOne \in {row.claims.person, row.env.person}
                       \/ row.claims.person = row.env.person
    BY <2>2 DEF ClaimsMatch, OwnDevice, Effective
  <2>4. Vouched(row) /\ Effective(row) # row.env.source => RoutedOver(report[r].via, row)
    BY <1>1, <1>2, <1>4, <2>1 DEF Backed, RoutedOver
  <2>5. \A x \in stored' : x \in stored \/ x = row
    BY <1>3
  <2> QED BY <1>3, <2>3, <2>4, <2>5 DEF TokenConfined, RoutedOver, RInv
<1> QED BY <1>6, <1>7, <1>8

------------------------------------------------------------------------------
(* The invariant.                                                           *)

LEMMA InitRInv == ReportsInit => RInv
  BY InitIInv
  DEF ReportsInit, RInv, ReportsTypeOK, AllBacked, PositionHasAssignment, TokenConfined

LEMMA StepKeepsRInv == RInv /\ [ReportsNext]_allVars => RInv'
<1> SUFFICES ASSUME RInv, [ReportsNext]_allVars PROVE RInv'
  OBVIOUS
<1>i. IInv'
  BY OnboardingStep, StepKeepsIInv DEF RInv
<1>g. ASSUME NEW r \in Reporter,
             \E new \in Report : report' = [report EXCEPT ![r] = new] /\ Backed(new),
             UNCHANGED <<route, stored>>
      PROVE  RInv'
  BY <1>g, <1>i, GoingOn, StoredKept DEF RInv
<1>1. ASSUME NEW u \in Route, CreateRoute(u) \/ EndRoute(u) PROVE RInv'
  <2>1. ReportsTypeOK'
    BY <1>1 DEF CreateRoute, EndRoute, RInv, ReportsTypeOK
  <2>2. AllBacked'
    BY <1>1, OthersBacked DEF CreateRoute, EndRoute
  <2> QED BY <1>1, <1>i, <2>1, <2>2, StoredKept DEF CreateRoute, EndRoute, RInv
<1>2. ASSUME NEW r \in Reporter, NEW claims \in tokens \cup {NoClaims}, NEW env \in Envelope,
             BeginReport(r, claims, env) \/ BeginItem(r, claims, env)
      PROVE  RInv'
  <2>1. PICK kind \in Kind : Begin(r, kind, claims, env)
    BY <1>2 DEF BeginReport, BeginItem, Kind
  <2> QED BY <1>g, <2>1, BeginBacked DEF Begin
<1>3. ASSUME NEW r \in Reporter, CheckAsset(r) PROVE RInv'
  <2>1. report[r] # NoReport /\ report[r] \in Report /\ report[r].at \in 1..6 /\ report[r].at # 4
    BY <1>3, WhereChecksStand DEF CheckAsset, Checking, RInv
  <2> QED BY <1>3, <1>g, <2>1, PassedBacked DEF CheckAsset
<1>4. ASSUME NEW r \in Reporter, CheckRoute(r) PROVE RInv'
  BY <1>4, <1>g, CheckRouteBacked DEF CheckRoute
<1>5. ASSUME NEW r \in Reporter, CheckAssignment(r) PROVE RInv'
  BY <1>5, <1>g, CheckAssignmentBacked DEF CheckAssignment
<1>6. ASSUME NEW r \in Reporter, InsertRow(r) PROVE RInv'
  <2>1. \A k \in Reporter : report'[k] = NoReport \/ report'[k] = report[k]
    BY <1>6 DEF InsertRow, RInv, ReportsTypeOK
  <2> QED BY <1>6, <1>i, <2>1, InsertKeeps, OthersBacked DEF RInv
<1>7. ASSUME NEW r \in Reporter, RejectReport(r) PROVE RInv'
  <2>1. \A k \in Reporter : report'[k] = NoReport \/ report'[k] = report[k]
    BY <1>7 DEF RejectReport, RInv, ReportsTypeOK
  <2>2. ReportsTypeOK'
    BY <1>7 DEF RejectReport, RInv, ReportsTypeOK
  <2> QED BY <1>7, <1>i, <2>1, <2>2, OthersBacked, StoredKept DEF RInv, RejectReport
<1>8. CASE UNCHANGED reportVars
  <2>1. ReportsTypeOK'
    BY <1>8 DEF reportVars, RInv, ReportsTypeOK
  <2> QED BY <1>8, <1>i, <2>1, OthersBacked, StoredKept DEF RInv, reportVars
<1> QED BY <1>1, <1>2, <1>3, <1>4, <1>5, <1>6, <1>7, <1>8
        DEF ReportsNext, ReportStep, allVars

LEMMA ReportsInvariance == ReportsSpec => []RInv
  BY InitRInv, StepKeepsRInv, PTL DEF ReportsSpec

------------------------------------------------------------------------------
(* The theorems about reports.                                              *)

\* Routes, requests and stored rows always have the types the code gives them.
THEOREM ReportsTypeCorrect == ReportsSpec => []ReportsTypeOK
<1>1. RInv => ReportsTypeOK
  BY DEF RInv
<1> QED BY <1>1, ReportsInvariance, PTL

\* No position is ever stored for a person who was not assigned, in that event,
\* the device it came from.
THEOREM PositionsAreAssigned == ReportsSpec => []PositionHasAssignment
<1>1. RInv => PositionHasAssignment
  BY DEF RInv
<1> QED BY <1>1, ReportsInvariance, PTL

\* A token reports only for its event, its device and its person, and another
\* device only over a route of that event.
THEOREM TokensAreConfined == ReportsSpec => []TokenConfined
<1>1. RInv => TokenConfined
  BY DEF RInv
<1> QED BY <1>1, ReportsInvariance, PTL

\* No report that is about to be stored relies on an assignment released or a
\* route ended before it arrived.
THEOREM NothingStaleIsStored == ReportsSpec => []NothingStale
<1>1. RInv => NothingStale
  <2> SUFFICES ASSUME RInv, NEW r \in Reporter, Checking(r, "insert")
               PROVE  report[r].asg \notin report[r].gone /\ report[r].via \notin report[r].gone
    BY DEF NothingStale
  <2>1. report[r] \in Report /\ Backed(report[r])
    BY WhereChecksStand DEF Checking, RInv, AllBacked
  <2>2. NoOne \notin report[r].gone
    BY <2>1, OnboardingAssumption, RouteAssumption DEF Report
  <2> QED BY <2>1, <2>2 DEF Backed
<1> QED BY <1>1, ReportsInvariance, PTL

\* Reports never disturb onboarding: whatever is reported, checked, stored or
\* refused, and whatever routes are made, the devices, credentials, assignments,
\* deployments and tokens behave as DeviceOnboarding says, so that each of its
\* theorems holds among reports too.
THEOREM ReportsImplementOnboarding == ReportsSpec => Spec
<1>1. ReportsInit => Init
  BY DEF ReportsInit
<1>2. [ReportsNext]_allVars => [Next]_vars
  BY OnboardingStep
<1> QED BY <1>1, <1>2, PTL DEF ReportsSpec, Spec
================================================================================
